---- MODULE Spec2Model ----
(***************************************************************************)
(* Password transformer: strength analysis, strategy dispatch and the     *)
(* pattern-learning store.                                                 *)
(*                                                                         *)
(* Encodings.  A Python str is a sequence of one-character strings; the   *)
(* character U+00B2 (superscript two) is written "sup2" and the grave      *)
(* accent U+0060 "grave".  A Python value handed to the entry points is a  *)
(* record [type, val].  Floats are kept as exact integers in a stated      *)
(* unit: strength_score in tenths, entropy in hundredths, success rates    *)
(* in units of 1/RateScale.  A function that draws from the random source  *)
(* is the set of results it can return.                                    *)
(***************************************************************************)
EXTENDS Integers, Sequences, FiniteSets, TLC

VARIABLES
  password,                \* the value handed to analyze_password / transform_password
  current_year,            \* datetime.now().year
  analysis,                \* result of analyze_password, NoResult before the call
  settings,                \* settings dict of the transform_password call
  transformed,             \* result of transform_password, NoResult before the call
  success_rates,           \* PatternLearner.success_rates
  pattern_database,        \* PatternLearner.pattern_database
  transformation_history,  \* PatternLearner.transformation_history
  cluster_model,           \* PatternLearner.cluster_model
  scaler,                  \* PatternLearner.scaler
  learning_data_json,      \* the file learning_data.json
  cluster_model_pkl,       \* the files cluster_model.pkl and scaler.pkl
  user_preferences,        \* BehaviorTracker.user_preferences
  user_preferences_table,  \* the table user_preferences of behavior.db
  email,                   \* email argument of get_smart_recommendations
  context,                 \* context argument of get_smart_recommendations
  prediction,              \* result of predict_best_settings, NoResult before the call
  ml_recommendations,      \* local of get_smart_recommendations: the prediction
  behavior_recommendations,\* local of get_smart_recommendations: the tracker's result
  context_adjustments,     \* local of get_smart_recommendations
  recommendation,          \* result of get_smart_recommendations, NoResult before the call
  reloaded,                \* a second RecommendationEngine on the same files, NoResult before
  ml_available,            \* PasswordTransformerApp.ml_available
  input_data,              \* PasswordTransformerApp.input_data: (email, password) pairs
  processed_data,          \* local of _process_passwords_thread
  failed_transformations,  \* local of _process_passwords_thread
  completion,              \* what _process_passwords_thread reports at its end, NoResult before
  learners                 \* per thread inside learn_transformation_pattern: position and locals

core_vars == <<password, current_year, analysis, settings, transformed>>

store_vars == <<success_rates, pattern_database, transformation_history, cluster_model,
                scaler, learning_data_json, cluster_model_pkl>>

tracker_vars == <<user_preferences, user_preferences_table>>

engine_vars ==
  <<email, context, prediction, ml_recommendations, behavior_recommendations,
    context_adjustments, recommendation, reloaded>>

batch_vars ==
  <<ml_available, input_data, processed_data, failed_transformations, completion>>

\* what the analyzer, the transformer and the pattern learner never touch
rest_vars == <<tracker_vars, engine_vars, batch_vars, learners>>

vars == <<core_vars, store_vars, rest_vars>>

(***************************************************************************)
(* Characters                                                              *)
(***************************************************************************)
Ascii ==
  <<" ", "!", "\"", "#", "$", "%", "&", "'", "(", ")", "*", "+", ",", "-", ".", "/",
    "0", "1", "2", "3", "4", "5", "6", "7", "8", "9", ":", ";", "<", "=", ">", "?", "@",
    "A", "B", "C", "D", "E", "F", "G", "H", "I", "J", "K", "L", "M", "N", "O", "P", "Q",
    "R", "S", "T", "U", "V", "W", "X", "Y", "Z", "[", "\\", "]", "^", "_", "grave",
    "a", "b", "c", "d", "e", "f", "g", "h", "i", "j", "k", "l", "m", "n", "o", "p", "q",
    "r", "s", "t", "u", "v", "w", "x", "y", "z", "{", "|", "}", "~">>

Chars == {Ascii[i] : i \in 1..Len(Ascii)} \cup {"sup2"}

\* ord(): code point of a character
ord == [c \in Chars |-> IF c = "sup2" THEN 178
                        ELSE 31 + CHOOSE i \in 1..Len(Ascii) : Ascii[i] = c]

chr(n) == Ascii[n - 31]

\* [a-z], [A-Z], \d and the special-character class of the regular expressions
ReLower == {c \in Chars : ord[c] >= 97 /\ ord[c] <= 122}
ReUpper == {c \in Chars : ord[c] >= 65 /\ ord[c] <= 90}
ReDigit == {c \in Chars : ord[c] >= 48 /\ ord[c] <= 57}
ReSpecial ==
  {"!", "@", "#", "$", "%", "^", "&", "*", "(", ")", ",", ".", "?", "\"", ":", "{",
   "}", "|", "<", ">", "_", "+", "=", "-", "[", "]", "\\", ";", "'", "/", "~", "grave"}

\* str.isdigit() is also true of U+00B2, which \d does not match and int() rejects
StrIsDigit == ReDigit \cup {"sup2"}
StrIsAlpha == ReLower \cup ReUpper

char_lower == [c \in Chars |-> IF c \in ReUpper THEN chr(ord[c] + 32) ELSE c]
char_upper == [c \in Chars |-> IF c \in ReLower THEN chr(ord[c] - 32) ELSE c]

lower(s) == [i \in 1..Len(s) |-> char_lower[s[i]]]
upper(s) == [i \in 1..Len(s) |-> char_upper[s[i]]]
reversed(s) == [i \in 1..Len(s) |-> s[Len(s) + 1 - i]]

\* sub in s
Contains(s, sub) ==
  \E i \in 0..(Len(s) - Len(sub)) : \A j \in 1..Len(sub) : s[i + j] = sub[j]

\* len(re.findall(<class>, s))
CountIn(s, class) == Cardinality({i \in 1..Len(s) : s[i] \in class})

HasAny(s, class) == \E i \in 1..Len(s) : s[i] \in class

Min(a, b) == IF a < b THEN a ELSE b
Max(a, b) == IF a > b THEN a ELSE b

(***************************************************************************)
(* PasswordAnalyzer                                                        *)
(***************************************************************************)
common_passwords ==
  { <<"p", "a", "s", "s", "w", "o", "r", "d">>,
    <<"1", "2", "3", "4", "5", "6">>,
    <<"p", "a", "s", "s", "w", "o", "r", "d", "1", "2", "3">>,
    <<"a", "d", "m", "i", "n">>,
    <<"q", "w", "e", "r", "t", "y">>,
    <<"l", "e", "t", "m", "e", "i", "n">>,
    <<"w", "e", "l", "c", "o", "m", "e">>,
    <<"m", "o", "n", "k", "e", "y">>,
    <<"1", "2", "3", "4", "5", "6", "7", "8", "9", "0">>,
    <<"a", "b", "c", "1", "2", "3">>,
    <<"p", "a", "s", "s", "w", "o", "r", "d", "1">>,
    <<"u", "s", "e", "r">>,
    <<"l", "o", "g", "i", "n">>,
    <<"m", "a", "s", "t", "e", "r">>,
    <<"h", "e", "l", "l", "o">>,
    <<"g", "u", "e", "s", "t">>,
    <<"a", "d", "m", "i", "n", "i", "s", "t", "r", "a", "t", "o", "r">>,
    <<"r", "o", "o", "t">>,
    <<"1", "2", "3", "4", "5">>,
    <<"q", "w", "e", "r", "t", "y", "1", "2", "3">>,
    <<"P", "a", "s", "s", "w", "o", "r", "d", "1">>,
    <<"s", "u", "p", "e", "r", "m", "a", "n">>,
    <<"m", "i", "c", "h", "a", "e", "l">>,
    <<"j", "e", "s", "u", "s">>,
    <<"n", "i", "n", "j", "a">>,
    <<"m", "u", "s", "t", "a", "n", "g">>,
    <<"a", "c", "c", "e", "s", "s">>,
    <<"s", "h", "a", "d", "o", "w">>,
    <<"j", "e", "n", "n", "i", "f", "e", "r">>,
    <<"j", "o", "r", "d", "a", "n">>,
    <<"h", "u", "n", "t", "e", "r">>,
    <<"f", "u", "c", "k", "y", "o", "u">>,
    <<"t", "r", "u", "s", "t", "n", "o", "1">>,
    <<"r", "a", "n", "g", "e", "r">>,
    <<"b", "u", "s", "t", "e", "r">> }

patterns_to_check ==
  << <<"q", "w", "e", "r", "t", "y">>, <<"q", "w", "e", "r", "t", "y", "u", "i">>,
     <<"a", "s", "d", "f">>, <<"a", "s", "d", "f", "g", "h">>,
     <<"z", "x", "c", "v">>, <<"z", "x", "c", "v", "b", "n">>,
     <<"1", "2", "3", "4">>, <<"1", "2", "3", "4", "5">>,
     <<"1", "2", "3", "4", "5", "6">>,
     <<"1", "2", "3", "4", "5", "6", "7", "8", "9", "0">> >>

common_words ==
  { <<"p", "a", "s", "s", "w", "o", "r", "d">>, <<"a", "d", "m", "i", "n">>,
    <<"u", "s", "e", "r">>, <<"g", "u", "e", "s", "t">>, <<"l", "o", "g", "i", "n">>,
    <<"w", "e", "l", "c", "o", "m", "e">>, <<"h", "e", "l", "l", "o">>,
    <<"w", "o", "r", "l", "d">>, <<"l", "o", "v", "e">>, <<"m", "o", "n", "e", "y">>,
    <<"h", "o", "m", "e">>, <<"t", "i", "m", "e">>, <<"p", "e", "o", "p", "l", "e">>,
    <<"w", "a", "t", "e", "r">>, <<"d", "a", "y">>, <<"m", "a", "n">>,
    <<"w", "o", "m", "a", "n">>, <<"c", "h", "i", "l", "d">>, <<"l", "i", "f", "e">>,
    <<"w", "o", "r", "k">>, <<"s", "c", "h", "o", "o", "l">>, <<"y", "e", "a", "r">> }

\* round(log2(n) * 10^6) for the character-space sizes _calculate_entropy can form
log2_micro ==
  [n \in {10, 26, 32, 36, 42, 52, 58, 62, 68, 84, 94} |->
     CASE n = 10 -> 3321928 [] n = 26 -> 4700440 [] n = 32 -> 5000000
       [] n = 36 -> 5169925 [] n = 42 -> 5392317 [] n = 52 -> 5700440
       [] n = 58 -> 5857981 [] n = 62 -> 5954196 [] n = 68 -> 6087463
       [] n = 84 -> 6392317 [] n = 94 -> 6554589]

\* entropy in hundredths: round(len * log2(charset_size), 2)
_calculate_entropy(s) ==
  LET charset_size == (IF HasAny(s, ReLower) THEN 26 ELSE 0)
                    + (IF HasAny(s, ReUpper) THEN 26 ELSE 0)
                    + (IF HasAny(s, ReDigit) THEN 10 ELSE 0)
                    + (IF HasAny(s, ReSpecial) THEN 32 ELSE 0)
  IN IF s = <<>> \/ charset_size = 0 THEN 0
     ELSE (Len(s) * log2_micro[charset_size] + 5000) \div 10000

_check_common_password(s) == lower(s) \in common_passwords

_check_keyboard_patterns(s) ==
  \E k \in 1..Len(patterns_to_check) :
     \/ Contains(lower(s), patterns_to_check[k])
     \/ Contains(lower(s), reversed(patterns_to_check[k]))

_check_repeated_characters(s) ==
  \E i \in 1..(Len(s) - 2) : s[i] = s[i + 1] /\ s[i + 1] = s[i + 2]

\* The numeric test converts with int(); a ValueError (U+00B2) is swallowed, so
\* only windows of three ASCII digits can succeed.  The letter test compares
\* code points of every character of the lower-cased password.
_check_sequential_patterns(s) ==
  \/ \E i \in 1..(Len(s) - 2) :
        /\ s[i] \in StrIsDigit /\ s[i + 1] \in StrIsDigit /\ s[i + 2] \in StrIsDigit
        /\ s[i] \in ReDigit /\ s[i + 1] \in ReDigit /\ s[i + 2] \in ReDigit
        /\ ord[s[i + 1]] - 48 = (ord[s[i]] - 48) + 1
        /\ ord[s[i + 2]] - 48 = (ord[s[i + 1]] - 48) + 1
  \/ \E i \in 1..(Len(s) - 2) :
        /\ ord[lower(s)[i + 1]] = ord[lower(s)[i]] + 1
        /\ ord[lower(s)[i + 2]] = ord[lower(s)[i + 1]] + 1

\* len(set(password)) / len(password), kept as the exact fraction
_calculate_character_diversity(s) ==
  IF s = <<>> THEN [num |-> 0, den |-> 1]
  ELSE [num |-> Cardinality({s[i] : i \in 1..Len(s)}), den |-> Len(s)]

\* ^[a-zA-Z]+<class>+$
LettersThen(s, class) ==
  \E k \in 1..(Len(s) - 1) :
     /\ \A i \in 1..k : s[i] \in StrIsAlpha
     /\ \A i \in (k + 1)..Len(s) : s[i] \in class

\* ^\d+[a-zA-Z]+$
DigitsThenLetters(s) ==
  \E k \in 1..(Len(s) - 1) :
     /\ \A i \in 1..k : s[i] \in ReDigit
     /\ \A i \in (k + 1)..Len(s) : s[i] \in StrIsAlpha

\* _identify_pattern_type testing the keyboard pattern before the word shapes
_identify_pattern_type_keyboard_first(s) ==
  IF s = <<>> THEN "empty"
  ELSE IF _check_common_password(s) THEN "common"
  ELSE IF \A i \in 1..Len(s) : s[i] \in StrIsDigit THEN "numeric"
  ELSE IF \A i \in 1..Len(s) : s[i] \in StrIsAlpha THEN "alphabetic"
  ELSE IF _check_keyboard_patterns(s) THEN "keyboard_pattern"
  ELSE IF LettersThen(s, ReDigit) THEN "word_with_numbers"
  ELSE IF DigitsThenLetters(s) THEN "numbers_with_word"
  ELSE IF LettersThen(s, ReSpecial) THEN "word_with_symbols"
  ELSE "mixed"

_identify_pattern_type(s) ==
  IF s = <<>> THEN "empty"
  ELSE IF _check_common_password(s) THEN "common"
  ELSE IF \A i \in 1..Len(s) : s[i] \in StrIsDigit THEN "numeric"
  ELSE IF \A i \in 1..Len(s) : s[i] \in StrIsAlpha THEN "alphabetic"
  ELSE IF LettersThen(s, ReDigit) THEN "word_with_numbers"
  ELSE IF DigitsThenLetters(s) THEN "numbers_with_word"
  ELSE IF _check_keyboard_patterns(s) THEN "keyboard_pattern"
  ELSE IF LettersThen(s, ReSpecial) THEN "word_with_symbols"
  ELSE "mixed"

_check_dictionary_words(s) == \E w \in common_words : Contains(lower(s), w)

_calculate_complexity_score(s) ==
  LET middle_chars == IF Len(s) > 2 THEN SubSeq(s, 2, Len(s) - 1) ELSE <<>>
      score == Min(Len(s) * 4, 25)
             + (IF HasAny(s, ReLower) THEN 2 ELSE 0)
             + (IF HasAny(s, ReUpper) THEN 2 ELSE 0)
             + (IF HasAny(s, ReDigit) THEN 4 ELSE 0)
             + (IF HasAny(s, ReSpecial) THEN 6 ELSE 0)
             + CountIn(middle_chars, ReDigit) * 2
             + CountIn(middle_chars, ReSpecial) * 2
  IN Min(score, 100)

\* The unrounded score of an analysis, as the numerator of a fraction whose
\* denominator is 400 * length (so that every term is an integer).
StrengthNumerator(a) ==
  LET variety_score == (IF a.has_lowercase THEN 5 ELSE 0) + (IF a.has_uppercase THEN 5 ELSE 0)
                     + (IF a.has_digits THEN 5 ELSE 0) + (IF a.has_special THEN 5 ELSE 0)
      penalties == (IF a.is_common THEN 30 ELSE 0)
                 + (IF a.has_keyboard_pattern THEN 15 ELSE 0)
                 + (IF a.has_repeated_chars THEN 10 ELSE 0)
                 + (IF a.has_sequential THEN 10 ELSE 0)
                 + (IF a.has_dictionary_word THEN 10 ELSE 0)
                 + (IF a.length < 8 THEN 15 ELSE 0)
  IN a.length * ( 160 * a.complexity_score
                + Min(a.length * 1000, 8000)
                + 400 * variety_score
                + Min(a.entropy, 6000)
                - 400 * penalties )
     + 4000 * a.character_diversity.num

\* round(x, 1) of the float x = num / den, in tenths.  When x lies exactly
\* half-way between two tenths the binary rounding error accumulated by the
\* float additions decides the direction, so both neighbours are possible.
Round1(num, den) ==
  LET q == (10 * num) \div den
      r == (10 * num) % den
  IN IF 2 * r < den THEN {q}
     ELSE IF 2 * r > den THEN {q + 1}
     ELSE {q, q + 1}

\* _calculate_strength_score without the final max(0, min(100, score))
_calculate_strength_score_unclamped(a) ==
  Round1(StrengthNumerator(a), 400 * a.length)

\* strength_score in tenths
_calculate_strength_score(a) ==
  LET den == 400 * a.length
      score == StrengthNumerator(a)
      clamped == Max(0, Min(100 * den, score))
  IN Round1(clamped, den)

\* _get_strength_level with strict comparisons
_get_strength_level_strict(score) ==
  IF score > 800 THEN "very_strong"
  ELSE IF score > 600 THEN "strong"
  ELSE IF score > 400 THEN "moderate"
  ELSE IF score > 200 THEN "weak"
  ELSE "very_weak"

\* score is in tenths
_get_strength_level(score) ==
  IF score >= 800 THEN "very_strong"
  ELSE IF score >= 600 THEN "strong"
  ELSE IF score >= 400 THEN "moderate"
  ELSE IF score >= 200 THEN "weak"
  ELSE "very_weak"

\* _empty_analysis reporting the fallback pattern type
_empty_analysis_unknown ==
  [kind |-> "report",
   length |-> 0, has_digits |-> FALSE, has_uppercase |-> FALSE,
   has_lowercase |-> FALSE, has_special |-> FALSE, digit_count |-> 0,
   uppercase_count |-> 0, lowercase_count |-> 0, special_count |-> 0,
   entropy |-> 0, is_common |-> TRUE, has_keyboard_pattern |-> FALSE,
   has_repeated_chars |-> FALSE, has_sequential |-> FALSE,
   character_diversity |-> [num |-> 0, den |-> 1], pattern_type |-> "unknown",
   has_dictionary_word |-> FALSE, complexity_score |-> 0,
   strength_score |-> 0, strength_level |-> "very_weak"]

_empty_analysis ==
  [kind |-> "report",
   length |-> 0, has_digits |-> FALSE, has_uppercase |-> FALSE,
   has_lowercase |-> FALSE, has_special |-> FALSE, digit_count |-> 0,
   uppercase_count |-> 0, lowercase_count |-> 0, special_count |-> 0,
   entropy |-> 0, is_common |-> TRUE, has_keyboard_pattern |-> FALSE,
   has_repeated_chars |-> FALSE, has_sequential |-> FALSE,
   character_diversity |-> [num |-> 0, den |-> 1], pattern_type |-> "empty",
   has_dictionary_word |-> FALSE, complexity_score |-> 0,
   strength_score |-> 0, strength_level |-> "very_weak"]

\* Truth value of a Python object under "not password"
Falsy(v) ==
  \/ v.type = "NoneType"
  \/ v.type = "str" /\ v.val = <<>>
  \/ v.type = "int" /\ v.val = <<"0">>

Raised(exc) == [kind |-> "raised", exc |-> exc]

\* The analysis without the two fields computed last
BaseAnalysis(s) ==
  [kind |-> "report",
   length |-> Len(s),
   has_digits |-> HasAny(s, ReDigit),
   has_uppercase |-> HasAny(s, ReUpper),
   has_lowercase |-> HasAny(s, ReLower),
   has_special |-> HasAny(s, ReSpecial),
   digit_count |-> CountIn(s, ReDigit),
   uppercase_count |-> CountIn(s, ReUpper),
   lowercase_count |-> CountIn(s, ReLower),
   special_count |-> CountIn(s, ReSpecial),
   entropy |-> _calculate_entropy(s),
   is_common |-> _check_common_password(s),
   has_keyboard_pattern |-> _check_keyboard_patterns(s),
   has_repeated_chars |-> _check_repeated_characters(s),
   has_sequential |-> _check_sequential_patterns(s),
   character_diversity |-> _calculate_character_diversity(s),
   pattern_type |-> _identify_pattern_type(s),
   has_dictionary_word |-> _check_dictionary_words(s),
   complexity_score |-> _calculate_complexity_score(s),
   strength_score |-> 0, strength_level |-> "very_weak"]

\* The set of results analyze_password can return (or raise) for a value
analyze_password(v) ==
  IF Falsy(v) THEN {_empty_analysis}
  ELSE IF v.type # "str" THEN {Raised("TypeError")}
  ELSE LET a == BaseAnalysis(v.val)
       IN {[a EXCEPT !.strength_score = sc, !.strength_level = _get_strength_level(sc)] :
             sc \in _calculate_strength_score(a)}

(***************************************************************************)
(* String helpers (Python str methods and the regular expressions used)    *)
(***************************************************************************)
\* Result of a string function whose evaluation raised ValueError
ValueError == <<"ValueError">>

\* First index i >= from with s[i..] starting with sub; 0 when there is none
Find(s, sub, from) ==
  LET hits == {i \in from..(Len(s) - Len(sub) + 1) :
                 \A j \in 1..Len(sub) : s[i + j - 1] = sub[j]}
  IN IF hits = {} THEN 0 ELSE CHOOSE i \in hits : \A k \in hits : i <= k

RECURSIVE replace(_, _, _, _)
\* str.replace(old, new, count); count = -1 replaces every occurrence
replace(s, old, new, count) ==
  LET i == Find(s, old, 1)
  IN IF i = 0 \/ count = 0 THEN s
     ELSE SubSeq(s, 1, i - 1) \o new
          \o replace(SubSeq(s, i + Len(old), Len(s)), old, new, count - 1)

capitalize(s) ==
  [i \in 1..Len(s) |-> IF i = 1 THEN char_upper[s[i]] ELSE char_lower[s[i]]]

\* str.title(): a letter is upper-cased unless the previous character is a letter
title(s) ==
  [i \in 1..Len(s) |->
     IF i > 1 /\ s[i - 1] \in StrIsAlpha THEN char_lower[s[i]] ELSE char_upper[s[i]]]

RECURSIVE int(_)
\* int() of a run of ASCII digits
int(ds) ==
  IF ds = <<>> THEN 0
  ELSE 10 * int(SubSeq(ds, 1, Len(ds) - 1)) + (ord[ds[Len(ds)]] - 48)

RECURSIVE str(_)
\* str() of a non-negative int
str(n) == IF n < 10 THEN <<chr(48 + n)>> ELSE str(n \div 10) \o <<chr(48 + (n % 10))>>

RECURSIVE zfill(_, _)
zfill(s, width) == IF Len(s) >= width THEN s ELSE zfill(<<"0">> \o s, width)

\* re.search(r'(19|20)\d{2}', s): index of the leftmost match, 0 when none
year_match(s) ==
  LET hits == {i \in 1..(Len(s) - 3) :
                 /\ \/ s[i] = "1" /\ s[i + 1] = "9"
                    \/ s[i] = "2" /\ s[i + 1] = "0"
                 /\ s[i + 2] \in ReDigit /\ s[i + 3] \in ReDigit}
  IN IF hits = {} THEN 0 ELSE CHOOSE i \in hits : \A k \in hits : i <= k

\* re.search(r'\d{4}', s)
HasFourDigits(s) ==
  \E i \in 1..(Len(s) - 3) : \A j \in 0..3 : s[i + j] \in ReDigit

RECURSIVE digit_runs(_, _)
\* spans <<first, last>> of re.finditer(r'\d+', s) from index i on, left to right
digit_runs(s, i) ==
  IF i > Len(s) THEN <<>>
  ELSE IF s[i] \notin ReDigit THEN digit_runs(s, i + 1)
  ELSE LET e == CHOOSE k \in i..Len(s) :
                   /\ \A j \in i..k : s[j] \in ReDigit
                   /\ (k = Len(s) \/ s[k + 1] \notin ReDigit)
       IN <<(<<i, e>>)>> \o digit_runs(s, e + 1)

RECURSIVE short_digit_runs(_, _)
\* spans of re.finditer(r'\d{1,2}', s) from index i on, left to right
short_digit_runs(s, i) ==
  IF i > Len(s) THEN <<>>
  ELSE IF s[i] \notin ReDigit THEN short_digit_runs(s, i + 1)
  ELSE IF i < Len(s) /\ s[i + 1] \in ReDigit
       THEN <<(<<i, i + 1>>)>> \o short_digit_runs(s, i + 2)
       ELSE <<(<<i, i>>)>> \o short_digit_runs(s, i + 1)

\* result[:start] + new + result[end:] for the 1-based inclusive span
Splice(s, span, new) ==
  SubSeq(s, 1, span[1] - 1) \o new \o SubSeq(s, span[2] + 1, Len(s))

(***************************************************************************)
(* TransformationStrategies                                                *)
(***************************************************************************)
char_substitutions ==
  [c \in {"a", "e", "i", "o", "s", "l", "t", "g", "b", "z"} |->
     CASE c = "a" -> <<"@", "4">>
       [] c = "e" -> <<"3">>
       [] c = "i" -> <<"1", "!">>
       [] c = "o" -> <<"0">>
       [] c = "s" -> <<"$", "5">>
       [] c = "l" -> <<"1">>
       [] c = "t" -> <<"7">>
       [] c = "g" -> <<"9">>
       [] c = "b" -> <<"6">>
       [] c = "z" -> <<"2">>]

\* lower-cased password, replacement candidates
common_patterns ==
  << <<<<"p", "a", "s", "s", "w", "o", "r", "d">>,
       {<<"P", "@", "s", "s", "w", "0", "r", "d">>, <<"P", "a", "s", "s", "w", "0", "r", "d", "!">>, <<"P", "4", "s", "s", "w", "0", "r", "d">>}>>,
     <<<<"a", "d", "m", "i", "n">>,
       {<<"A", "d", "m", "1", "n">>, <<"@", "d", "m", "i", "n">>, <<"A", "d", "m", "i", "n", "1", "2", "3">>}>>,
     <<<<"u", "s", "e", "r">>,
       {<<"U", "s", "3", "r">>, <<"U", "s", "e", "r", "!">>, <<"U", "$", "e", "r">>}>>,
     <<<<"q", "w", "e", "r", "t", "y">>,
       {<<"Q", "w", "3", "r", "t", "y">>, <<"Q", "w", "e", "r", "t", "y", "!">>, <<"Q", "W", "3", "R", "T", "Y">>}>>,
     <<<<"w", "e", "l", "c", "o", "m", "e">>,
       {<<"W", "3", "l", "c", "o", "m", "e">>, <<"W", "e", "l", "c", "o", "m", "e", "!">>, <<"W", "3", "l", "c", "0", "m", "e", "!">>}>>,
     <<<<"h", "e", "l", "l", "o">>,
       {<<"H", "3", "l", "l", "o">>, <<"H", "e", "l", "l", "o", "!">>, <<"H", "3", "l", "l", "0", "!">>}>>,
     <<<<"l", "e", "t", "m", "e", "i", "n">>,
       {<<"L", "3", "t", "m", "e", "1", "n">>, <<"L", "e", "t", "M", "e", "1", "n", "!">>, <<"L", "3", "t", "m", "3", "1", "n">>}>> >>

\* Results of a step applied to every string of a set; a raised error is kept
Bind(S, F(_)) == UNION {IF x = ValueError THEN {ValueError} ELSE F(x) : x \in S}

\* the palindrome case tested before the cases by size
_smart_increment_palindrome_first(number, year) ==
  IF number = 0 THEN 1
  ELSE IF 1900 <= number /\ number <= 2030 THEN year
  ELSE IF str(number) = reversed(str(number)) /\ number >= 10 THEN number + 10
  ELSE IF number < 10 THEN (IF number = 9 THEN (number + 1) % 10 ELSE number + 1)
  ELSE IF number < 100 THEN (IF number < 99 THEN number + 1 ELSE number + 10)
  ELSE number + 1

_smart_increment(number, year) ==
  IF number = 0 THEN 1
  ELSE IF 1900 <= number /\ number <= 2030 THEN year
  ELSE IF number < 10 THEN (IF number = 9 THEN (number + 1) % 10 ELSE number + 1)
  ELSE IF number < 100 THEN (IF number < 99 THEN number + 1 ELSE number + 10)
  ELSE IF number = 123 THEN 124
  ELSE IF str(number) = reversed(str(number)) THEN number + 10
  ELSE number + 1

RECURSIVE IncrementRuns(_, _, _, _)
\* the loop of increment_numbers over reversed(number_matches), k matches left
IncrementRuns(result, matches, k, year) ==
  IF k = 0 THEN result
  ELSE LET original_str == SubSeq(result, matches[k][1], matches[k][2])
           new_number == _smart_increment(int(original_str), year)
           new_str == IF original_str[1] = "0" /\ Len(original_str) > 1
                      THEN zfill(str(new_number), Len(original_str))
                      ELSE str(new_number)
       IN IncrementRuns(Splice(result, matches[k], new_str), matches, k - 1, year)

increment_numbers(s, year) ==
  LET number_matches == digit_runs(s, 1)
  IN IF number_matches = <<>> THEN s
     ELSE IncrementRuns(s, number_matches, Len(number_matches), year)

RECURSIVE LightRuns(_, _, _)
\* the loop of _light_number_increment over the reversed matches, k matches left
LightRuns(result, matches, k) ==
  IF k = 0 THEN result
  ELSE LET number == int(SubSeq(result, matches[k][1], matches[k][2]))
       IN IF number < 50
          THEN LightRuns(Splice(result, matches[k],
                                str(IF number < 99 THEN number + 1 ELSE number)),
                         matches, k - 1)
          ELSE LightRuns(result, matches, k - 1)

_light_number_increment(s) ==
  LET matches == short_digit_runs(s, 1) IN LightRuns(s, matches, Len(matches))

\* A stale year token (older than year - slack) is replaced wherever it occurs
RefreshYear(s, year, slack) ==
  LET i == year_match(s)
  IN IF i = 0 THEN s
     ELSE LET old_year == int(SubSeq(s, i, i + 3))
          IN IF old_year < year - slack
             THEN replace(s, str(old_year), str(year), -1)
             ELSE s

apply_light_optimization(s, a, year) ==
  LET optimized == IF HasAny(s, ReDigit) THEN _light_number_increment(s) ELSE s
  IN RefreshYear(optimized, year, 1)

RECURSIVE SubstituteFrom(_, _, _, _)
\* the loop of apply_character_substitution from position i on
SubstituteFrom(substituted, i, substitution_count, max_subs) ==
  IF i > Len(substituted) THEN {substituted}
  ELSE IF substituted[i] \in DOMAIN char_substitutions /\ substitution_count < max_subs
       THEN SubstituteFrom(substituted, i + 1, substitution_count, max_subs)
            \cup UNION {SubstituteFrom([substituted EXCEPT ![i] = new_char], i + 1,
                                       substitution_count + 1, max_subs) :
                          new_char \in {char_substitutions[substituted[i]][k] :
                                          k \in 1..Len(char_substitutions[substituted[i]])}}
       ELSE SubstituteFrom(substituted, i + 1, substitution_count, max_subs)

\* the substitution with no limit on the number of replacements
apply_character_substitution_unlimited(s, intensity) ==
  SubstituteFrom(lower(s), 1, 0, Len(s))

\* The candidates are never letters, so the upper-casing of new_char has no effect
apply_character_substitution(s, intensity) ==
  LET max_subs == IF intensity = "conservative" THEN 1
                  ELSE IF intensity = "moderate" THEN Len(s) \div 4
                  ELSE Len(s) \div 2
  IN SubstituteFrom(lower(s), 1, 0, max_subs)

RECURSIVE SubstituteAt(_, _)
\* every way of substituting all positions of the set
SubstituteAt(result, positions) ==
  IF positions = {} THEN {result}
  ELSE LET pos == CHOOSE q \in positions : TRUE
           cands == char_substitutions[char_lower[result[pos]]]
       IN UNION {SubstituteAt([result EXCEPT ![pos] = cands[k]], positions \ {pos}) :
                   k \in 1..Len(cands)}

apply_selective_substitution(s) ==
  LET substitutable_positions ==
        {i \in 1..Len(s) : char_lower[s[i]] \in DOMAIN char_substitutions}
      num_to_substitute == Min(2, Cardinality(substitutable_positions))
  IN IF substitutable_positions = {} THEN {s}
     ELSE UNION {SubstituteAt(s, positions) :
                   positions \in {P \in SUBSET substitutable_positions :
                                    Cardinality(P) = num_to_substitute}}

basic_subs ==
  << <<"a", "@">>, <<"e", "3">>, <<"i", "1">>, <<"o", "0">>, <<"s", "$">> >>

apply_basic_substitution(s) ==
  LET present == {k \in 1..Len(basic_subs) : Contains(lower(s), <<basic_subs[k][1]>>)}
  IN IF present = {} THEN s
     ELSE LET k == CHOOSE m \in present : \A n \in present : m <= n
              i == Find(lower(s), <<basic_subs[k][1]>>, 1)
          IN [s EXCEPT ![i] = basic_subs[k][2]]

_transform_common_password(s, year) ==
  LET known == {k \in 1..Len(common_patterns) : common_patterns[k][1] = lower(s)}
  IN IF known # {} THEN common_patterns[CHOOSE k \in known : TRUE][2]
     ELSE { capitalize(s) \o <<"1", "2", "3", "!">>,
            SubSeq(upper(s), 1, Min(3, Len(s))) \o SubSeq(lower(s), 4, Len(s))
              \o <<"2", "0", "2", "4">>,
            replace(replace(s, <<"a">>, <<"@">>, -1), <<"o">>, <<"0">>, -1) \o <<"!">>,
            title(s) \o str(year) }

_enhance_word_with_numbers(s) ==
  IF LettersThen(s, ReDigit)
  THEN LET k == CHOOSE n \in 1..Len(s) :
                  /\ \A i \in 1..n : s[i] \in StrIsAlpha
                  /\ \A i \in (n + 1)..Len(s) : s[i] \in ReDigit
           word_part == SubSeq(s, 1, k)
           num_part == SubSeq(s, k + 1, Len(s))
           enhanced_word == IF Contains(lower(word_part), <<"a">>)
                            THEN replace(capitalize(word_part), <<"a">>, <<"@">>, 1)
                            ELSE capitalize(word_part)
       IN enhanced_word \o str(int(num_part) + 1) \o <<"!">>
  ELSE s

_enhance_numeric_password(s) ==
  IF Len(s) <= 6 THEN <<"P", "a", "s", "s">> \o s \o <<"!">>
  ELSE LET mid_point == Len(s) \div 2
       IN SubSeq(s, 1, mid_point) \o <<"P", "a", "s", "s">>
          \o SubSeq(s, mid_point + 1, Len(s)) \o <<"!">>

_enhance_alphabetic_password(s, year) ==
  replace(replace(capitalize(s), <<"a">>, <<"@">>, 1), <<"o">>, <<"0">>, 1)
  \o str(year) \o <<"!">>

\* pattern, replacement (in the order the dict is scanned)
transformations ==
  << <<<<"q", "w", "e", "r", "t", "y">>, <<"Q", "w", "3", "r", "t", "y", "!">>>>,
     <<<<"a", "s", "d", "f">>, <<"@", "s", "d", "f", "1", "2", "3">>>>,
     <<<<"z", "x", "c", "v">>, <<"Z", "x", "c", "v", "2", "0", "2", "4", "!">>>>,
     <<<<"1", "2", "3", "4">>, <<"P", "a", "s", "s", "1", "2", "3", "4", "!">>>>,
     <<<<"1", "2", "3", "4", "5">>, <<"S", "e", "c", "u", "r", "e", "1", "2", "3", "4", "5">>>> >>

_transform_keyboard_pattern(s) ==
  LET hit == {k \in 1..Len(transformations) : Contains(lower(s), transformations[k][1])}
  IN IF hit # {} THEN transformations[CHOOSE k \in hit : \A n \in hit : k <= n][2]
     ELSE capitalize(s) \o <<"2", "0", "2", "4", "!">>

apply_intelligent_enhancement(s, a, year) ==
  LET enhanced == IF a.is_common THEN _transform_common_password(s, year) ELSE {s}
      ByPattern(e) ==
        IF a.pattern_type = "word_with_numbers" THEN {_enhance_word_with_numbers(e)}
        ELSE IF a.pattern_type = "numeric" THEN {_enhance_numeric_password(e)}
        ELSE IF a.pattern_type = "alphabetic" THEN {_enhance_alphabetic_password(e, year)}
        ELSE IF a.pattern_type = "keyboard_pattern" THEN {_transform_keyboard_pattern(e)}
        ELSE {e}
  IN Bind(enhanced, ByPattern)

\* random.random() < 0.8 appends one of three; otherwise one character in
\* 1..len-2 (0-based) is overwritten when len > 4, else "!" is appended
_add_strategic_special_chars(s) ==
  {s \o <<c>> : c \in {"!", "@", "#"}}
  \cup (IF Len(s) > 4
        THEN {[s EXCEPT ![pos + 1] = c] :
                pos \in 1..(Len(s) - 2), c \in {"!", "@", "#", "$", "%", "&", "*"}}
        ELSE {s \o <<"!">>})

RECURSIVE FixRepeatedFrom(_, _)
\* the while loop of _fix_repeated_characters; i is the 0-based index
FixRepeatedFrom(result, i) ==
  IF ~(i < Len(result) - 2) THEN result
  ELSE IF result[i + 1] = result[i + 2] /\ result[i + 2] = result[i + 3]
       THEN LET char == result[i + 1]
            IN IF char \in StrIsDigit /\ char \notin ReDigit THEN ValueError
               ELSE LET replacement ==
                          IF char \in StrIsDigit THEN str(((ord[char] - 48) + 1) % 10)[1]
                          ELSE IF char_lower[char] \in DOMAIN char_substitutions
                               THEN char_substitutions[char_lower[char]][1]
                          ELSE IF char \in ReLower THEN char_upper[char]
                          ELSE char_lower[char]
                    IN FixRepeatedFrom([result EXCEPT ![i + 2] = replacement], i + 3)
       ELSE FixRepeatedFrom(result, i + 1)

_fix_repeated_characters(s) == FixRepeatedFrom(s, 0)

apply_pattern_improvements(s, a, year) ==
  LET improved == increment_numbers(s, year)
      special == IF ~a.has_special THEN _add_strategic_special_chars(improved)
                 ELSE {improved}
      Fix(x) == IF a.has_repeated_chars THEN {_fix_repeated_characters(x)} ELSE {x}
  IN Bind(special, Fix)

(***************************************************************************)
(* Settings: a dict with a set of present keys; get() supplies the default *)
(***************************************************************************)
BoolKeys ==
  {"character_substitution", "add_year", "intelligent_patterns", "preserve_strong",
   "increment_numbers"}

Intensities == {"conservative", "moderate", "aggressive"}

\* settings.get(key, default)
get(st, key, default) == IF key \in st.present THEN st[key] ELSE default

EmptySettings ==
  [present |-> {}, character_substitution |-> TRUE, add_year |-> TRUE,
   intelligent_patterns |-> TRUE, preserve_strong |-> TRUE,
   increment_numbers |-> TRUE, intensity |-> "moderate"]

\* every complete settings dict, and the empty one
SettingsSet ==
  [present : {BoolKeys \cup {"intensity"}}, character_substitution : BOOLEAN,
   add_year : BOOLEAN, intelligent_patterns : BOOLEAN, preserve_strong : BOOLEAN,
   increment_numbers : BOOLEAN, intensity : Intensities]
  \cup {EmptySettings}

(***************************************************************************)
(* PasswordTransformer                                                     *)
(***************************************************************************)
\* random.randint(a, b)
randint(a, b) == a..b

_add_uppercase(s) ==
  IF s = <<>> THEN s
  ELSE IF s[1] \in ReLower THEN [s EXCEPT ![1] = char_upper[s[1]]]
  ELSE IF HasAny(s, ReLower)
       THEN LET i == CHOOSE k \in 1..Len(s) :
                       s[k] \in ReLower /\ \A j \in 1..(k - 1) : s[j] \notin ReLower
            IN [s EXCEPT ![i] = char_upper[s[i]]]
  ELSE s

\* _minimal_optimization that also appends the year when none is embedded
_minimal_optimization_append(s, a, st, year) ==
  IF get(st, "add_year", TRUE)
  THEN IF year_match(s) = 0 THEN {s \o str(year)} ELSE {RefreshYear(s, year, 1)}
  ELSE {s}

_minimal_optimization(s, a, st, year) ==
  IF get(st, "add_year", TRUE) THEN {RefreshYear(s, year, 1)} ELSE {s}

\* _enhance_weak_password up to the intelligent enhancement (lines 48-52)
weak_enhanced(s, a, st, year) ==
  IF get(st, "intelligent_patterns", TRUE)
  THEN apply_intelligent_enhancement(s, a, year) ELSE {s}

\* the character substitution of _enhance_weak_password (lines 54-58)
weak_substituted(x, st) ==
  LET intensity == get(st, "intensity", "moderate")
  IN IF get(st, "character_substitution", TRUE) /\ intensity \in {"moderate", "aggressive"}
     THEN apply_character_substitution(x, intensity) ELSE {x}

\* the rest of _enhance_weak_password (lines 60-82)
weak_completed(x0, a, st, year) ==
  LET intensity == get(st, "intensity", "moderate")
      Uppercase(x) == IF ~a.has_uppercase THEN {_add_uppercase(x)} ELSE {x}
      Numbers(x) ==
        IF ~a.has_digits
        THEN IF get(st, "add_year", TRUE)
             THEN IF intensity = "aggressive" THEN {x \o str(year)}
                  ELSE {x \o SubSeq(str(year), Len(str(year)) - 1, Len(str(year)))}
             ELSE {x \o str(n) : n \in randint(10, 99)}
        ELSE {x}
      Special(x) ==
        IF ~a.has_special /\ intensity # "conservative"
        THEN IF intensity = "aggressive"
             THEN {x \o <<c>> : c \in {"!", "@", "#", "$", "%"}}
             ELSE {x \o <<"!">>}
        ELSE {x}
  IN Bind(Bind(Uppercase(x0), Numbers), Special)

_enhance_weak_password(s, a, st, year) ==
  LET Substitute(x) == weak_substituted(x, st)
      Complete(x) == weak_completed(x, a, st, year)
  IN Bind(Bind(weak_enhanced(s, a, st, year), Substitute), Complete)

_improve_moderate_password(s, a, st, year) ==
  LET intensity == get(st, "intensity", "moderate")
      improved == IF get(st, "intelligent_patterns", TRUE)
                  THEN apply_pattern_improvements(s, a, year) ELSE {s}
      Substitute(x) ==
        IF get(st, "character_substitution", TRUE) /\ intensity = "aggressive"
        THEN apply_selective_substitution(x) ELSE {x}
      Increment(x) ==
        IF get(st, "increment_numbers", TRUE) THEN {increment_numbers(x, year)} ELSE {x}
      Year(x) ==
        IF /\ get(st, "add_year", TRUE) /\ ~HasFourDigits(x)
           /\ intensity \in {"moderate", "aggressive"}
           /\ Len(x) < 12
        THEN {x \o str(year)} ELSE {x}
  IN Bind(Bind(Bind(improved, Substitute), Increment), Year)

_optimize_strong_password(s, a, st, year) ==
  LET intensity == get(st, "intensity", "moderate")
      optimized == IF get(st, "intelligent_patterns", TRUE)
                   THEN apply_light_optimization(s, a, year) ELSE s
  IN IF intensity = "conservative"
     THEN IF get(st, "increment_numbers", TRUE)
          THEN {increment_numbers(optimized, year)} ELSE {optimized}
     ELSE IF intensity \in {"moderate", "aggressive"}
          THEN IF get(st, "add_year", TRUE)
               THEN {RefreshYear(optimized, year, 0)} ELSE {optimized}
     ELSE {optimized}

_apply_default_transformation(s, st, year) ==
  LET substituted == IF get(st, "character_substitution", TRUE)
                     THEN apply_basic_substitution(s) ELSE s
      dated == IF get(st, "add_year", TRUE) /\ ~HasFourDigits(substituted)
               THEN substituted \o str(year) ELSE substituted
  IN IF ~HasAny(dated, ReUpper) THEN {_add_uppercase(dated)} ELSE {dated}

Returned(type, val) == [kind |-> "returned", type |-> type, val |-> val]

\* The set of results of transform_password for a value v and an analysis a
\* of it.  A false value is returned as it is; otherwise v is a str.
transform_password(v, a, st, year) ==
  IF Falsy(v) THEN {Returned(v.type, v.val)}
  ELSE LET strength_level == a.strength_level
           results ==
             IF get(st, "preserve_strong", TRUE) /\ strength_level \in {"very_strong"}
             THEN _minimal_optimization(v.val, a, st, year)
             ELSE IF strength_level \in {"very_weak", "weak"}
             THEN _enhance_weak_password(v.val, a, st, year)
             ELSE IF strength_level = "moderate"
             THEN _improve_moderate_password(v.val, a, st, year)
             ELSE IF strength_level = "strong"
             THEN _optimize_strong_password(v.val, a, st, year)
             ELSE _apply_default_transformation(v.val, st, year)
       IN {IF r = ValueError THEN Raised("ValueError") ELSE Returned("str", r) :
             r \in results}

(***************************************************************************)
(* PatternLearner                                                          *)
(***************************************************************************)
\* A rate or success score x is the integer x * RateScale
RateScale == 10 ^ 6

\* a dict as a function on its keys
EmptyDict == [k \in {} |-> 0]

Put(d, key, value) == [k \in DOMAIN d \cup {key} |-> IF k = key THEN value ELSE d[k]]

\* dict.get(key, default)
dict_get(d, key, default) == IF key \in DOMAIN d THEN d[key] ELSE default

\* the weighted average with weights 0.95 and 0.05
WeightedAverage_slow(rate, success_score) == (95 * rate + 5 * success_score + 50) \div 100

\* rate * 0.8 + success_score * 0.2, rounded to the unit
WeightedAverage(rate, success_score) == (8 * rate + 2 * success_score + 5) \div 10

\* _update_success_rates giving the new score the weight 0.3
_update_success_rates_heavy(rates, pattern_type, success_score, st) ==
  LET heavy(rate) == (8 * rate + 3 * success_score + 5) \div 10
      rates1 == Put(rates, pattern_type, heavy(dict_get(rates, pattern_type, 0)))
      setting_key == pattern_type \o "_" \o get(st, "intensity", "moderate")
  IN Put(rates1, setting_key, heavy(dict_get(rates1, setting_key, RateScale \div 2)))

\* The new success_rates.  Reading a missing key of the defaultdict(float)
\* gives 0.0; the setting key starts from 0.5.
_update_success_rates(rates, pattern_type, success_score, st) ==
  LET current_rate == dict_get(rates, pattern_type, 0)
      rates1 == Put(rates, pattern_type, WeightedAverage(current_rate, success_score))
      intensity == get(st, "intensity", "moderate")
      setting_key == pattern_type \o "_" \o intensity
  IN Put(rates1, setting_key,
         WeightedAverage(dict_get(rates1, setting_key, RateScale \div 2), success_score))

NoModel == [fitted |-> FALSE]

\* StandardScaler(), not fitted (line 23)
NewScaler == [fitted |-> FALSE]

\* what the feature vector of a record holds: finite numbers only, a nan, an inf
FeatureKinds == {"finite", "nan", "inf"}
NoFile == [exists |-> FALSE]

\* transformation_history[-n:]
Last(h, n) == SubSeq(h, Max(1, Len(h) - n + 1), Len(h))

RECURSIVE ljust(_, _)
\* the digits padded with zeros on the right
ljust(s, width) == IF Len(s) >= width THEN s ELSE ljust(s \o <<"0">>, width)

\* the rate written with two decimals
float_repr_short(rate) ==
  LET fraction == zfill(str(rate % RateScale), Len(str(RateScale)) - 1)
  IN str(rate \div RateScale) \o <<".">> \o SubSeq(fraction, 1, 2)

\* json.dump of a rate: float.__repr__, the decimal text with no trailing
\* zeros after the first fractional digit ("0.744", "1.0")
float_repr(rate) ==
  LET fraction == zfill(str(rate % RateScale), Len(str(RateScale)) - 1)
      last == CHOOSE i \in 1..Len(fraction) :
                /\ i = 1 \/ fraction[i] # "0"
                /\ \A j \in (i + 1)..Len(fraction) : fraction[j] = "0"
  IN str(rate \div RateScale) \o <<".">> \o SubSeq(fraction, 1, last)

\* json.load of a rate: float() of the decimal text
float_of(text) ==
  LET dot == CHOOSE i \in 1..Len(text) : text[i] = "."
      fraction == ljust(SubSeq(text, dot + 1, Len(text)), Len(str(RateScale)) - 1)
  IN int(SubSeq(text, 1, dot - 1)) * RateScale + int(fraction)

\* the learning_data.json written by save_models
SavedData(database, rates, history) ==
  [exists |-> TRUE, pattern_database |-> database,
   success_rates |-> [k \in DOMAIN rates |-> float_repr(rates[k])],
   transformation_history |-> Last(history, 1000)]

\* success_rates read from learning_data.json, empty when there is no file
LoadedRates(file) ==
  IF file.exists
  THEN [k \in DOMAIN file.success_rates |-> float_of(file.success_rates[k])]
  ELSE EmptyDict

\* the model files after save_models: written when self.cluster_model is not None
SavedModel(model, sc, old) ==
  IF model # NoModel THEN [exists |-> TRUE, model |-> model, scaler |-> sc] ELSE old

\* the cluster count with no upper limit
n_clusters_unclamped(n) == Max(2, n \div 5)

\* n_clusters = min(10, max(2, len(features) // 5)) (line 146)
n_clusters(n) == Min(10, Max(2, n \div 5))

\* the KMeans model fitted by _retrain_clustering_model over n records
FittedModel(n) ==
  [fitted |-> TRUE, n_clusters |-> n_clusters(n), n_samples |-> n]

\* KMeans(n_clusters=n_clusters, random_state=42, n_init=10), before fit
UnfittedModel(n) == [fitted |-> FALSE, n_clusters |-> n_clusters(n)]

\* the scaler after fit_transform over n records
FittedScaler(n) == [fitted |-> TRUE, n_samples |-> n]

\* the kinds of the feature vectors that the loop of lines 136-137 collects
feature_kinds(history) == {history[i].original_features : i \in 1..Len(history)}

\* _retrain_clustering_model: the model, the scaler and the files after it.
\* StandardScaler.fit resets the scaler and then rejects an inf; it accepts a
\* nan, which KMeans.fit rejects after self.cluster_model was assigned; the
\* except clause catches either error.
_retrain_clustering_model(history, database, rates, model, sc, pkl, json) ==
  LET n == Len(history)
      kinds == feature_kinds(history)
      kept == [cluster_model |-> model, scaler |-> sc, cluster_model_pkl |-> pkl,
               learning_data_json |-> json]
  IN IF n < 10 THEN kept
     ELSE IF "inf" \in kinds THEN [kept EXCEPT !.scaler = NewScaler]
     ELSE IF "nan" \in kinds
     THEN [kept EXCEPT !.scaler = FittedScaler(n), !.cluster_model = UnfittedModel(n)]
     ELSE [cluster_model |-> FittedModel(n), scaler |-> FittedScaler(n),
           cluster_model_pkl |-> SavedModel(FittedModel(n), FittedScaler(n), pkl),
           learning_data_json |-> SavedData(database, rates, history)]

\* the store after learn_transformation_pattern has stored the pattern and
\* updated the rates: a refit when the history length is a multiple of 20
AfterLearn(history, database, rates) ==
  IF Len(history) % 20 = 0
  THEN _retrain_clustering_model(history, database, rates, cluster_model, scaler,
                                 cluster_model_pkl, learning_data_json)
  ELSE [cluster_model |-> cluster_model, scaler |-> scaler,
        cluster_model_pkl |-> cluster_model_pkl,
        learning_data_json |-> learning_data_json]

\* learn_transformation_pattern for an original password of the given pattern
\* type whose analysis gives a feature vector of the given kind
LearnFeatures(pattern_type, st, success_score, features) ==
  LET pattern == [pattern_type |-> pattern_type, settings_used |-> st,
                  success_score |-> success_score, original_features |-> features]
      database == Put(pattern_database, pattern_type,
                      Append(dict_get(pattern_database, pattern_type, <<>>), pattern))
      history == Append(transformation_history, pattern)
      rates == _update_success_rates(success_rates, pattern_type, success_score, st)
      after == AfterLearn(history, database, rates)
  IN /\ pattern_database' = database
     /\ transformation_history' = history
     /\ success_rates' = rates
     /\ cluster_model' = after.cluster_model
     /\ scaler' = after.scaler
     /\ cluster_model_pkl' = after.cluster_model_pkl
     /\ learning_data_json' = after.learning_data_json
     /\ UNCHANGED core_vars
     /\ UNCHANGED rest_vars

\* learn_transformation_pattern with the report of the analyzer, whose numbers
\* are all finite
Learn(pattern_type, st, success_score) ==
  LearnFeatures(pattern_type, st, success_score, "finite")

SaveModels ==
  /\ cluster_model_pkl' = SavedModel(cluster_model, scaler, cluster_model_pkl)
  /\ learning_data_json' =
       SavedData(pattern_database, success_rates, transformation_history)
  /\ UNCHANGED <<success_rates, pattern_database, transformation_history, cluster_model,
                 scaler>>
  /\ UNCHANGED core_vars
  /\ UNCHANGED rest_vars

\* PatternLearner(model_dir): a new object that loads what was saved
NewPatternLearner ==
  /\ cluster_model' = IF cluster_model_pkl.exists THEN cluster_model_pkl.model ELSE NoModel
  /\ scaler' = IF cluster_model_pkl.exists THEN cluster_model_pkl.scaler ELSE NewScaler
  /\ IF learning_data_json.exists
     THEN /\ pattern_database' = learning_data_json.pattern_database
          /\ success_rates' = LoadedRates(learning_data_json)
          /\ transformation_history' = learning_data_json.transformation_history
     ELSE /\ pattern_database' = EmptyDict
          /\ success_rates' = EmptyDict
          /\ transformation_history' = <<>>
  /\ UNCHANGED <<learning_data_json, cluster_model_pkl>>
  /\ UNCHANGED core_vars
  /\ UNCHANGED rest_vars

(***************************************************************************)
(* PatternLearner.predict_best_settings                                    *)
(***************************************************************************)
\* settings dicts of the ML layer are functions from the key to the value
_get_default_settings(a) ==
  [k \in BoolKeys |->
     CASE k = "character_substitution" -> a.strength_level \notin {"strong", "very_strong"}
       [] k = "add_year" -> a.strength_level \in {"very_weak", "weak"}
       [] k = "intelligent_patterns" -> TRUE
       [] k = "preserve_strong" -> a.strength_level \in {"very_strong"}
       [] k = "increment_numbers" -> ~a.has_digits]

\* The indices of the records _find_similar_patterns returns: all of them up
\* to top_k = 5; of a longer history, the five with the highest cosine
\* similarity, which can be any five.
_find_similar_patterns(history) ==
  IF history = <<>> THEN {{}}
  ELSE {idx \in SUBSET (1..Len(history)) : Cardinality(idx) = Min(5, Len(history))}

RECURSIVE WeightOf(_, _)
\* the sum of the success scores of the records at the indices
WeightOf(history, idx) ==
  IF idx = {} THEN 0
  ELSE LET i == CHOOSE j \in idx : TRUE
       IN history[i].success_score + WeightOf(history, idx \ {i})

_aggregate_recommendations(history, idx, a) ==
  IF idx = {} THEN _get_default_settings(a)
  ELSE LET total_weight == WeightOf(history, idx)
           voted(k, value) ==
             WeightOf(history, {i \in idx : /\ k \in history[i].settings_used.present
                                           /\ history[i].settings_used[k] = value})
       IN [k \in BoolKeys |->
             IF total_weight > 0 THEN voted(k, TRUE) > voted(k, FALSE) ELSE TRUE]

_apply_heuristics(recommendations, a) ==
  LET r1 == IF a.strength_level = "very_weak"
            THEN [recommendations EXCEPT !["character_substitution"] = TRUE,
                                         !["add_year"] = TRUE]
            ELSE IF a.strength_level \in {"strong", "very_strong"}
            THEN [recommendations EXCEPT !["preserve_strong"] = TRUE]
            ELSE recommendations
      r2 == IF ~a.has_digits THEN [r1 EXCEPT !["increment_numbers"] = TRUE] ELSE r1
  IN IF a.is_common THEN [r2 EXCEPT !["intelligent_patterns"] = TRUE] ELSE r2

\* max(intensity_rates.items(), key=rate)[0].  The rates of the model are
\* the doubles rounded to the unit, and doubles that round to the same unit
\* may compare either way (0.5 * 0.8 + 1.0 * 0.2 is 0.6000000000000001, above
\* the default 0.6), so every intensity of the highest rate can be returned.
best_intensity(rates, pattern_type) ==
  LET intensity_rates ==
        << <<"light", dict_get(rates, pattern_type \o "_light", 5 * (RateScale \div 10))>>,
           <<"moderate", dict_get(rates, pattern_type \o "_moderate", 6 * (RateScale \div 10))>>,
           <<"aggressive", dict_get(rates, pattern_type \o "_aggressive", 7 * (RateScale \div 10))>> >>
  IN {intensity_rates[i][1] :
        i \in {k \in 1..3 : \A j \in 1..3 : intensity_rates[j][2] <= intensity_rates[k][2]}}

\* self.success_rates.get(pattern_type, 0.6), as predict_best_settings (line
\* 163) and _predict_effectiveness of the engine read the rate
pattern_success(rates, pattern_type) ==
  dict_get(rates, pattern_type, 6 * (RateScale \div 10))

\* 'confidence_score': min(0.95, base_rate + 0.1) (line 186)
confidence_score(rates, pattern_type) ==
  Min(95 * (RateScale \div 100), pattern_success(rates, pattern_type) + RateScale \div 10)

\* the results predict_best_settings can return
predict_best_settings(rates, history, a) ==
  {[kind |-> "prediction",
    recommended_intensity |-> best,
    confidence_score |-> confidence_score(rates, a.pattern_type),
    settings |-> _apply_heuristics(_aggregate_recommendations(history, idx, a), a)] :
   idx \in _find_similar_patterns(history), best \in best_intensity(rates, a.pattern_type)}

(***************************************************************************)
(* IEEE-754 doubles between -2 and 2, exactly.  A double x is the pair     *)
(* [hi, lo] with x = (hi * 2^28 + lo) / 2^57 and 0 <= lo < 2^28; every     *)
(* double of magnitude at least 2^-5 is such a pair.                       *)
(***************************************************************************)
Limb == 2 ^ 28

Float(hi, lo) == [hi |-> hi, lo |-> lo]

\* the literals of behavior_tracker.py
F0_05 == Float(26843545, 161061274)   \* 0.05 = 0x1.999999999999ap-5
F0_1 == Float(53687091, 53687092)     \* 0.1  = 0x1.999999999999ap-4
F0_3 == Float(161061273, 161061272)   \* 0.3  = 0x1.3333333333333p-2
F0_5 == Float(268435456, 0)           \* 0.5  = 0x1.0p-1
F0_6 == Float(322122547, 53687088)    \* 0.6  = 0x1.3333333333333p-1
F0_9 == Float(483183820, 214748368)   \* 0.9  = 0x1.ccccccccccccdp-1
F0_95 == Float(510027366, 107374176)  \* 0.95 = 0x1.e666666666666p-1

\* rating / 10.0 for the ratings 0..10: the double nearest to the quotient
RatingTenth ==
  [r \in 0..10 |->
     CASE r = 0 -> Float(0, 0)
       [] r = 1 -> Float(53687091, 53687092)
       [] r = 2 -> Float(107374182, 107374184)
       [] r = 3 -> Float(161061273, 161061272)
       [] r = 4 -> Float(214748364, 214748368)
       [] r = 5 -> Float(268435456, 0)
       [] r = 6 -> Float(322122547, 53687088)
       [] r = 7 -> Float(375809638, 107374176)
       [] r = 8 -> Float(429496729, 161061280)
       [] r = 9 -> Float(483183820, 214748368)
       [] r = 10 -> Float(536870912, 0)]

\* the distance between neighbouring doubles at a magnitude, in units of 2^-57
ulp(hi) ==
  IF hi >= 2 * Limb THEN 32
  ELSE IF hi >= Limb THEN 16
  ELSE IF hi >= Limb \div 2 THEN 8
  ELSE IF hi >= Limb \div 4 THEN 4
  ELSE IF hi >= Limb \div 8 THEN 2
  ELSE 1

\* carry from the low limb
normalize(hi, lo) == Float(hi + lo \div Limb, lo % Limb)

\* Round an exact non-negative result to the nearest double, ties to even.
\* A negative result is kept exact: the code only compares it.
round_nearest_even(x) ==
  IF x.hi < 0 THEN x
  ELSE LET u == ulp(x.hi)
           r == x.lo % u
           down == x.lo - r
       IN IF 2 * r < u THEN normalize(x.hi, down)
          ELSE IF 2 * r > u THEN normalize(x.hi, down + u)
          ELSE IF (down \div u) % 2 = 0 THEN normalize(x.hi, down)
          ELSE normalize(x.hi, down + u)

\* a + b, a - b and n * a of doubles
fadd(a, b) == round_nearest_even(normalize(a.hi + b.hi, a.lo + b.lo))
fsub(a, b) == round_nearest_even(normalize(a.hi - b.hi, a.lo - b.lo))
fmul_int(n, a) == round_nearest_even(normalize(n * a.hi, n * a.lo))

fless(a, b) == a.hi < b.hi \/ (a.hi = b.hi /\ a.lo < b.lo)
fmin(a, b) == IF fless(b, a) THEN b ELSE a
fmax(a, b) == IF fless(a, b) THEN b ELSE a

\* the double as a multiple of 1/RateScale, to the nearest
Micro(a) ==
  LET h1 == a.hi \div 2 ^ 14
      h0 == a.hi % 2 ^ 14
      q1 == (h1 * 15625) \div 2 ^ 9
      r1 == (h1 * 15625) % 2 ^ 9
  IN q1 + (r1 * 2 ^ 14 + h0 * 15625 + 2 ^ 22) \div 2 ^ 23

(***************************************************************************)
(* BehaviorTracker                                                         *)
(***************************************************************************)
\* the characters of a setting key or pattern type: preference keys are
\* built and taken apart as text
spell ==
  [name \in {"character_substitution", "add_year", "intelligent_patterns", "preserve_strong", "increment_numbers", "intensity", "empty", "common", "numeric", "alphabetic", "word_with_numbers", "numbers_with_word", "keyboard_pattern", "word_with_symbols", "mixed", "unknown"} |->
     CASE name = "character_substitution" -> <<"c", "h", "a", "r", "a", "c", "t", "e", "r", "_", "s", "u", "b", "s", "t", "i", "t", "u", "t", "i", "o", "n">>
       [] name = "add_year" -> <<"a", "d", "d", "_", "y", "e", "a", "r">>
       [] name = "intelligent_patterns" -> <<"i", "n", "t", "e", "l", "l", "i", "g", "e", "n", "t", "_", "p", "a", "t", "t", "e", "r", "n", "s">>
       [] name = "preserve_strong" -> <<"p", "r", "e", "s", "e", "r", "v", "e", "_", "s", "t", "r", "o", "n", "g">>
       [] name = "increment_numbers" -> <<"i", "n", "c", "r", "e", "m", "e", "n", "t", "_", "n", "u", "m", "b", "e", "r", "s">>
       [] name = "intensity" -> <<"i", "n", "t", "e", "n", "s", "i", "t", "y">>
       [] name = "empty" -> <<"e", "m", "p", "t", "y">>
       [] name = "common" -> <<"c", "o", "m", "m", "o", "n">>
       [] name = "numeric" -> <<"n", "u", "m", "e", "r", "i", "c">>
       [] name = "alphabetic" -> <<"a", "l", "p", "h", "a", "b", "e", "t", "i", "c">>
       [] name = "word_with_numbers" -> <<"w", "o", "r", "d", "_", "w", "i", "t", "h", "_", "n", "u", "m", "b", "e", "r", "s">>
       [] name = "numbers_with_word" -> <<"n", "u", "m", "b", "e", "r", "s", "_", "w", "i", "t", "h", "_", "w", "o", "r", "d">>
       [] name = "keyboard_pattern" -> <<"k", "e", "y", "b", "o", "a", "r", "d", "_", "p", "a", "t", "t", "e", "r", "n">>
       [] name = "word_with_symbols" -> <<"w", "o", "r", "d", "_", "w", "i", "t", "h", "_", "s", "y", "m", "b", "o", "l", "s">>
       [] name = "mixed" -> <<"m", "i", "x", "e", "d">>
       [] name = "unknown" -> <<"u", "n", "k", "n", "o", "w", "n">>]

\* values of a settings dict
PyBool(b) == [type |-> "bool", val |-> IF b THEN "True" ELSE "False"]
PyWord(w) == [type |-> "str", val |-> w]

\* settings.items()
items(st) ==
  {<<k, IF k = "intensity" THEN PyWord(st.intensity) ELSE PyBool(st[k])>> : k \in st.present}

\* f"{pattern_type}_{setting_key}"
pref_key(pattern_type, setting_key) == spell[pattern_type] \o <<"_">> \o spell[setting_key]

\* max(0.1, rating / 10.0) if accepted else 0.05
feedback_weight(rating, accepted) ==
  IF accepted THEN fmax(F0_1, RatingTenth[rating]) ELSE F0_05

\* the entry stored when the preferred value flips as soon as the lowered
\* confidence is below 0.5
updated_preference_eager(prefs, key, setting_value, weight) ==
  LET known == key \in DOMAIN prefs
      current_value == IF known THEN prefs[key].value ELSE setting_value
      current_confidence == IF known THEN prefs[key].confidence ELSE F0_5
      current_count == IF known THEN prefs[key].count ELSE 0
      raised == fmin(F0_95, fadd(current_confidence, weight))
      lowered == fmax(F0_05, fsub(current_confidence, weight))
      count == current_count + 1
  IN IF setting_value.type = "bool" /\ setting_value # current_value
     THEN IF fless(lowered, F0_5)
          THEN [value |-> setting_value, confidence |-> F0_6, count |-> count]
          ELSE [value |-> current_value, confidence |-> lowered, count |-> count]
     ELSE [value |-> setting_value, confidence |-> raised, count |-> count]

\* the entry _update_preferences_from_feedback stores for one setting
updated_preference(prefs, key, setting_value, weight) ==
  LET known == key \in DOMAIN prefs
      current_value == IF known THEN prefs[key].value ELSE setting_value
      current_confidence == IF known THEN prefs[key].confidence ELSE F0_5
      current_count == IF known THEN prefs[key].count ELSE 0
      raised == fmin(F0_95, fadd(current_confidence, weight))
      lowered == fmax(F0_05, fsub(current_confidence, weight))
      count == current_count + 1
  IN IF setting_value.type = "bool"
     THEN IF setting_value = current_value
          THEN [value |-> current_value, confidence |-> raised, count |-> count]
          ELSE IF fless(lowered, F0_3)
               THEN [value |-> setting_value, confidence |-> F0_6, count |-> count]
               ELSE [value |-> current_value, confidence |-> lowered, count |-> count]
     ELSE [value |-> setting_value, confidence |-> raised, count |-> count]

_update_preferences_from_feedback(prefs, st, rating, accepted, pattern_type) ==
  LET weight == feedback_weight(rating, accepted)
      observed == [it \in items(st) |-> pref_key(pattern_type, it[1])]
  IN [key \in DOMAIN prefs \cup {observed[it] : it \in items(st)} |->
        IF \E it \in items(st) : observed[it] = key
        THEN LET it == CHOOSE i \in items(st) : observed[i] = key
             IN updated_preference(prefs, key, it[2], weight)
        ELSE prefs[key]]

\* the entry _learn_setting_preference stores
_learn_setting_preference(prefs, setting_name, value) ==
  LET current_count == IF setting_name \in DOMAIN prefs THEN prefs[setting_name].count ELSE 0
  IN Put(prefs, setting_name,
         [value |-> value,
          confidence |-> fmin(F0_9, fadd(F0_5, fmul_int(current_count, F0_05))),
          count |-> current_count + 1])

\* json.dumps of a preference entry: a bool becomes the literal true or
\* false, a str a quoted string, a float its repr, which parses back to it
json_dumps(pref) ==
  [value |-> IF pref.value.type = "bool"
             THEN <<"literal", IF pref.value.val = "True" THEN "true" ELSE "false">>
             ELSE <<"string", pref.value.val>>,
   confidence |-> <<"number", pref.confidence>>,
   count |-> <<"number", pref.count>>]

json_loads(text) ==
  [value |-> IF text.value[1] = "literal"
             THEN PyBool(text.value[2] = "true")
             ELSE PyWord(text.value[2]),
   confidence |-> text.confidence[2],
   count |-> text.count[2]]

\* INSERT OR REPLACE of every entry into the table
_save_preferences(table, prefs) ==
  [key \in DOMAIN table \cup DOMAIN prefs |->
     IF key \in DOMAIN prefs
     THEN [preference_value |-> json_dumps(prefs[key]),
           confidence_score |-> prefs[key].confidence]
     ELSE table[key]]

\* user_preferences after _load_preferences into an empty dict
_load_preferences(table) == [key \in DOMAIN table |-> json_loads(table[key].preference_value)]

\* key.startswith(prefix)
startswith(key, prefix) ==
  Len(prefix) <= Len(key) /\ SubSeq(key, 1, Len(prefix)) = prefix

\* get_user_preferences(pattern_type): setting name -> value
pattern_prefs(prefs, pattern_type) ==
  LET prefix == spell[pattern_type] \o <<"_">>
      keys == {key \in DOMAIN prefs : /\ startswith(key, prefix)
                                      /\ fless(F0_6, prefs[key].confidence)}
      setting_name(key) == replace(key, prefix, <<>>, -1)
  IN [name \in {setting_name(key) : key \in keys} |->
        prefs[CHOOSE key \in keys : setting_name(key) = name].value]

\* get_user_preferences(): setting name -> value
general_prefs(prefs) ==
  LET keys == {key \in DOMAIN prefs : /\ ~Contains(key, <<"_">>)
                                      /\ fless(F0_6, prefs[key].confidence)}
  IN [key \in keys |-> prefs[key].value]

\* round(total / n, 3) of a sum of n confidences, in units of 1/RateScale;
\* a value half way between two thousandths can land on either
round_mean(total, n) ==
  LET den == n * (RateScale \div 1000)
      q == total \div den
      r == total % den
  IN IF 2 * r < den THEN {q * (RateScale \div 1000)}
     ELSE IF 2 * r > den THEN {(q + 1) * (RateScale \div 1000)}
     ELSE {q * (RateScale \div 1000), (q + 1) * (RateScale \div 1000)}

RECURSIVE SumMicro(_, _)
\* sum(confidence_scores.values())
SumMicro(confidence_scores, keys) ==
  IF keys = {} THEN 0
  ELSE LET k == CHOOSE j \in keys : TRUE
       IN Micro(confidence_scores[k]) + SumMicro(confidence_scores, keys \ {k})

\* The results of get_personalized_recommendations.  The base settings are
\* the five boolean keys and the values learned for them are bools.
get_personalized_recommendations(prefs, pattern_type, base_settings) ==
  LET user_prefs == pattern_prefs(prefs, pattern_type)
      general == general_prefs(prefs)
      from_pattern == {k \in DOMAIN base_settings : spell[k] \in DOMAIN user_prefs}
      from_general == {k \in DOMAIN base_settings :
                         spell[k] \in DOMAIN general /\ spell[k] \notin DOMAIN user_prefs}
      recommendations ==
        [k \in DOMAIN base_settings |->
           IF k \in from_pattern THEN user_prefs[spell[k]].val = "True"
           ELSE IF k \in from_general THEN general[spell[k]].val = "True"
           ELSE base_settings[k]]
      confidence_scores ==
        [k \in from_pattern \cup from_general |->
           IF k \in from_pattern THEN prefs[pref_key(pattern_type, k)].confidence
           ELSE prefs[spell[k]].confidence]
      overall_confidence ==
        IF DOMAIN confidence_scores = {} THEN {6 * (RateScale \div 10)}
        ELSE round_mean(SumMicro(confidence_scores, DOMAIN confidence_scores),
                        Cardinality(DOMAIN confidence_scores))
  IN {[settings |-> recommendations, confidence |-> c,
       personalization_applied |-> DOMAIN user_prefs # {} \/ DOMAIN general # {}] :
      c \in overall_confidence}

(***************************************************************************)
(* RecommendationEngine                                                    *)
(***************************************************************************)
domain_patterns ==
  [d \in {"gmail.com", "yahoo.com", "hotmail.com", "outlook.com", "corporate", "edu"} |->
     CASE d = "gmail.com" -> [conservative |-> TRUE, common_patterns |-> {"word_with_numbers"}]
       [] d = "yahoo.com" ->
            [conservative |-> TRUE, common_patterns |-> {"alphabetic", "word_with_numbers"}]
       [] d = "hotmail.com" -> [conservative |-> TRUE, common_patterns |-> {"word_with_numbers"}]
       [] d = "outlook.com" -> [conservative |-> TRUE, common_patterns |-> {"mixed"}]
       [] d = "corporate" -> [conservative |-> FALSE, common_patterns |-> {"mixed", "alphabetic"}]
       [] d = "edu" ->
            [conservative |-> FALSE, common_patterns |-> {"word_with_numbers", "mixed"}]]

\* the text of the provider names and of the fragments looked for in a domain
domain_text ==
  [d \in {"gmail.com", "yahoo.com", "hotmail.com", "outlook.com", "corporate", "edu",
          ".edu", "university", "college", "corp", "company", ".org"} |->
     CASE d = "corporate" -> <<"c", "o", "r", "p", "o", "r", "a", "t", "e">>
       [] d = "edu" -> <<"e", "d", "u">>
       [] d = "gmail.com" -> <<"g", "m", "a", "i", "l", ".", "c", "o", "m">>
       [] d = "yahoo.com" -> <<"y", "a", "h", "o", "o", ".", "c", "o", "m">>
       [] d = "hotmail.com" -> <<"h", "o", "t", "m", "a", "i", "l", ".", "c", "o", "m">>
       [] d = "outlook.com" -> <<"o", "u", "t", "l", "o", "o", "k", ".", "c", "o", "m">>
       [] d = ".edu" -> <<".", "e", "d", "u">>
       [] d = "university" -> <<"u", "n", "i", "v", "e", "r", "s", "i", "t", "y">>
       [] d = "college" -> <<"c", "o", "l", "l", "e", "g", "e">>
       [] d = "corp" -> <<"c", "o", "r", "p">>
       [] d = "company" -> <<"c", "o", "m", "p", "a", "n", "y">>
       [] d = ".org" -> <<".", "o", "r", "g">>]

\* email.split('@')[1].lower() if '@' in email else ''
email_domain(e) ==
  LET at == Find(e, <<"@">>, 1)
      tail == SubSeq(e, at + 1, Len(e))
      next == Find(tail, <<"@">>, 1)
  IN IF at = 0 THEN <<>>
     ELSE lower(IF next = 0 THEN tail ELSE SubSeq(tail, 1, next - 1))

\* the domain_config chosen for a domain, "none" when there is none
domain_config(domain) ==
  LET providers == <<"gmail.com", "yahoo.com", "hotmail.com", "outlook.com">>
      has(d) == Contains(domain, domain_text[d])
  IN IF \E d \in DOMAIN domain_patterns : domain = domain_text[d]
     THEN CHOOSE d \in DOMAIN domain_patterns : domain = domain_text[d]
     ELSE IF has(".edu") \/ has("university") \/ has("college") THEN "edu"
     ELSE IF has("corp") \/ has("company") \/ has(".org") THEN "corporate"
     ELSE IF \E i \in 1..4 : has(providers[i])
     THEN providers[CHOOSE i \in 1..4 : has(providers[i]) /\ \A j \in 1..(i - 1) : ~has(providers[j])]
     ELSE "none"

\* dict.update / item assignment on a settings dict
Update(d, key, value) == Put(d, key, value)

\* the settings of _get_context_adjustments; its confidence is always 0.7
_get_context_adjustments(e, a, ctx) ==
  IF e.type = "NoneType" \/ e.val = <<>> THEN EmptyDict
  ELSE LET config == domain_config(email_domain(e.val))
           s1 == IF config # "none" /\ domain_patterns[config].conservative
                 THEN Update(Update(EmptyDict, "preserve_strong", TRUE),
                             "character_substitution",
                             a.strength_level \notin {"strong", "very_strong"})
                 ELSE EmptyDict
           s2 == IF config # "none" /\ a.pattern_type \in domain_patterns[config].common_patterns
                 THEN Update(s1, "intelligent_patterns", TRUE)
                 ELSE s1
           s3 == IF ctx.type = "dict" /\ "high_security" \in ctx.val
                 THEN Update(Update(Update(s2, "character_substitution", TRUE),
                                    "add_year", TRUE),
                             "intelligent_patterns", TRUE)
                 ELSE s2
       IN IF ctx.type = "dict" /\ "batch_processing" \in ctx.val
          THEN Update(s3, "preserve_strong", TRUE)
          ELSE s3

context_confidence == 7 * (RateScale \div 10)

\* the combination in which the prediction is applied last
_combine_recommendations_ml_last(ml_settings, behavior_settings, context_settings) ==
  [k \in DOMAIN ml_settings \cup DOMAIN behavior_settings \cup DOMAIN context_settings |->
     IF k \in DOMAIN ml_settings THEN ml_settings[k]
     ELSE IF k \in DOMAIN behavior_settings THEN behavior_settings[k]
     ELSE context_settings[k]]

_combine_recommendations(ml_settings, behavior_settings, context_settings) ==
  [k \in DOMAIN ml_settings \cup DOMAIN behavior_settings \cup DOMAIN context_settings |->
     IF k \in DOMAIN context_settings THEN context_settings[k]
     ELSE IF k \in DOMAIN behavior_settings THEN behavior_settings[k]
     ELSE ml_settings[k]]

\* round(0.3 * ml + 0.5 * behavior + 0.2 * context, 3); a sum half way
\* between two thousandths can land on either
_calculate_combined_confidence(ml_confidence, behavior_confidence, context_conf) ==
  LET combined == 3 * ml_confidence + 5 * behavior_confidence + 2 * context_conf
      den == 10 * (RateScale \div 1000)
      q == combined \div den
      r == combined % den
  IN IF 2 * r < den THEN {q * (RateScale \div 1000)}
     ELSE IF 2 * r > den THEN {(q + 1) * (RateScale \div 1000)}
     ELSE {q * (RateScale \div 1000), (q + 1) * (RateScale \div 1000)}

_determine_adaptive_intensity(a, st, ctx) ==
  LET strength_level == a.strength_level
      base_intensity == IF strength_level = "very_weak" THEN "aggressive"
                        ELSE IF strength_level = "weak" THEN "moderate"
                        ELSE "light"
      flag(k) == dict_get(st, k, FALSE)
  IN IF flag("preserve_strong") /\ strength_level \in {"strong", "very_strong"} THEN "light"
     ELSE IF /\ flag("character_substitution") /\ flag("add_year")
             /\ flag("intelligent_patterns")
             /\ base_intensity # "aggressive"
     THEN IF base_intensity = "light" THEN "moderate" ELSE "aggressive"
     ELSE IF ctx.type = "dict" /\ "high_security" \in ctx.val
     THEN IF base_intensity = "light" THEN "moderate" ELSE "aggressive"
     ELSE base_intensity

\* The runs of get_smart_recommendations: its three intermediate results
\* and the recommendation it returns.
smart_recommendation_runs(rates, history, prefs, a, e, ctx) ==
  UNION {
    UNION {
      LET adjustments == [kind |-> "adjustments",
                          settings |-> _get_context_adjustments(e, a, ctx),
                          confidence |-> context_confidence]
          final_settings == _combine_recommendations(ml.settings, behavior.settings,
                                                     adjustments.settings)
      IN {[ml_recommendations |-> ml,
           behavior_recommendations |-> behavior,
           context_adjustments |-> adjustments,
           recommendation |->
             [kind |-> "recommendation",
              settings |-> final_settings,
              intensity |-> _determine_adaptive_intensity(a, final_settings, ctx),
              confidence |-> c,
              personalization_level |-> behavior.personalization_applied]] :
          c \in _calculate_combined_confidence(ml.confidence_score, behavior.confidence,
                                               adjustments.confidence)}
      : behavior \in get_personalized_recommendations(prefs, a.pattern_type, ml.settings)}
    : ml \in predict_best_settings(rates, history, a)}

\* the results get_smart_recommendations can return
get_smart_recommendations(rates, history, prefs, a, e, ctx) ==
  {run.recommendation : run \in smart_recommendation_runs(rates, history, prefs, a, e, ctx)}

(***************************************************************************)
(* Inputs                                                                  *)
(***************************************************************************)
\* longest generated password that is analysed
MaxLen == 3

\* longest generated password that is transformed
MaxShort == 1

SmallAlphabet == {"a", "E", "1", "9", "!"}

Strings(n) == UNION {[1..k -> SmallAlphabet] : k \in 0..n}

\* passwords of every strength level and pattern type
Corpus ==
  { <<"p", "a", "s", "s", "w", "o", "r", "d">>,
    <<"1", "2", "3", "4", "5">>,
    <<"m", "o", "n", "k", "e", "y">>,
    <<"a", "b", "c", "1", "2", "3">>,
    <<"a", "d", "m", "i", "n">>,
    <<"T", "r", "0", "u", "b", "4", "d", "o", "r", "&", "3">>,
    <<"0", "!", "sup2", "sup2", "sup2", "a", "A">>,
    <<"a", "B", "1", "!", "2", "#", "3", "$", "4", "%", "5", "^", "6", "&", "7", "*", "8", "(", "9", ")", "0", "_", "1", "+", "3", "=", "5", "-", "7", "[">>,
    <<"q", "w", "e", "r", "t", "y", "1">>,
    <<"a", "a", "a", "a", "!">>,
    <<"1", "9", "9", "9", "b", "1", "Q">>,
    <<"Q", "s", "A", "A", "Q", "a", "A", "Q", "x">>,
    <<"s", "A", "1", "b", "!", "a", "Q", "s", "1", "a">>,
    <<"S", "u", "m", "m", "e", "r", "2", "0", "1", "9", "!", "x">>,
    <<"a", "s", "d", "f", "!", "1">>,
    <<"1", "2", "3", "a", "b", "c">>,
    <<"8", "6", "7", "5", "3", "0", "9">>,
    <<"s", "u", "n", "s", "h", "i", "n", "e">>,
    <<"B", "l", "u", "e", "4", "2", "s", "k", "y">>,
    <<"h", "e", "l", "l", "o", "!", "!">>,
    <<"x", "9">>,
    <<"c", "o", "r", "r", "e", "c", "t", "h", "o", "r", "s", "e", "7">>,
    <<"M", "y", "D", "o", "g", "2", "0", "3", "0", "!">>,
    <<"Z", "e", "b", "r", "a", "#", "9", "9", "r", "u", "n">>,
    <<"a", "a", "a", "1", "1", "1", "b", "b", "b">>,
    <<"W", "i", "n", "t", "e", "r", "2", "0", "2", "5", "#", "o", "k">>,
    <<"G", "0", "0", "d", "P", "a", "s", "s", "!", "1", "2">>,
    <<"a", "b", "c", "d", "e", "f", "g", "h">>,
    <<"P", "a", "5", "5", "w", "o", "r", "d", "X", "Y">>,
    <<"k", "i", "t", "t", "e", "n", "!", "!">>,
    <<"t", "i", "g", "e", "r", "2", "0", "1", "8">>,
    <<"S", "e", "c", "r", "e", "t", "0", "0", "7", "x">>,
    <<"m", "n", "b", "v", "c", "x", "z", "1">>,
    <<"A", "1", "b", "2", "C", "3", "d", "4">>,
    <<"l", "o", "n", "g", "e", "r", "p", "a", "s", "s", "p", "h", "r", "a", "s", "e">>,
    <<"R", "2", "d", "2", "&", "C", "3", "p", "o">>,
    <<"9", "l", "i", "v", "e", "s", "!">>,
    <<"9", "9", "b", "o", "t", "t", "l", "e", "s">>,
    <<"y", "e", "a", "r", "1", "9", "9", "9">>,
    <<"A", "b", "1", "!", "A", "b", "1", "!", "A", "b", "1", "!", "2", "0", "2", "0">> }

\* corpus passwords whose transformation has more random outcomes than the
\* enumeration of every settings dict allows; they are analysed only
ManyOutcomes ==
  { <<"p", "a", "s", "s", "w", "o", "r", "d">>,
    <<"m", "o", "n", "k", "e", "y">>,
    <<"l", "o", "n", "g", "e", "r", "p", "a", "s", "s", "p", "h", "r", "a", "s", "e">>,
    <<"a", "a", "a", "a", "!">>,
    <<"s", "u", "n", "s", "h", "i", "n", "e">> }

PyStr(s) == [type |-> "str", val |-> s]
PyNone == [type |-> "NoneType", val |-> <<>>]
PyInt(n) == [type |-> "int", val |-> str(n)]

\* values that are not a str
Malformed == {PyNone, PyInt(0), PyInt(123)}

\* what a caller can pass as the password
Inputs == {PyStr(s) : s \in Corpus \cup Strings(MaxLen)} \cup Malformed

TransformInputs ==
  {PyStr(s) : s \in (Corpus \ ManyOutcomes) \cup Strings(MaxShort)} \cup Malformed

\* calendar years datetime.now().year can return
Years == {2026}

NoResult == [kind |-> "none"]

\* a PatternLearner constructed over an empty model directory
InitStore ==
  /\ success_rates = EmptyDict
  /\ pattern_database = EmptyDict
  /\ transformation_history = <<>>
  /\ cluster_model = NoModel
  /\ scaler = NewScaler
  /\ learning_data_json = NoFile
  /\ cluster_model_pkl = NoFile

InitCore ==
  /\ current_year \in Years
  /\ analysis = NoResult
  /\ settings = EmptySettings
  /\ transformed = NoResult

NoEmail == [type |-> "NoneType", val |-> <<>>]
NoContext == [type |-> "NoneType", val |-> {}]

\* a BehaviorTracker constructed over an empty database, and no engine call yet
InitSession ==
  /\ user_preferences = EmptyDict
  /\ user_preferences_table = EmptyDict
  /\ email = NoEmail
  /\ context = NoContext
  /\ prediction = NoResult
  /\ ml_recommendations = NoResult
  /\ behavior_recommendations = NoResult
  /\ context_adjustments = NoResult
  /\ recommendation = NoResult
  /\ reloaded = NoResult

\* no file has been loaded into the window
NoBatch ==
  /\ ml_available = FALSE
  /\ input_data = <<>>
  /\ processed_data = <<>>
  /\ failed_transformations = 0
  /\ completion = NoResult

\* the threads that call learn_transformation_pattern on one PatternLearner
Threads == {"t1", "t2"}

\* no thread is inside learn_transformation_pattern
NoLearners == learners = [t \in Threads |-> [pc |-> "idle"]]

InitRest == InitSession /\ NoBatch /\ NoLearners

(***************************************************************************)
(* Analysis of one value                                                   *)
(***************************************************************************)
AnalyzePassword ==
  /\ analysis.kind = "none"
  /\ analysis' \in analyze_password(password)
  /\ UNCHANGED <<password, current_year, settings, transformed>>
  /\ UNCHANGED store_vars
  /\ UNCHANGED rest_vars

InitAnalyzer ==
  /\ password \in Inputs
  /\ InitCore
  /\ InitStore
  /\ InitRest

NextAnalyzer == AnalyzePassword

SpecAnalyzer == InitAnalyzer /\ [][NextAnalyzer]_vars

(***************************************************************************)
(* Analysis followed by transformation of one value                        *)
(***************************************************************************)
TransformPassword ==
  /\ analysis.kind = "report"
  /\ transformed.kind = "none"
  /\ \E st \in SettingsSet :
        /\ settings' = st
        /\ transformed' \in transform_password(password, analysis, st, current_year)
  /\ UNCHANGED <<password, current_year, analysis>>
  /\ UNCHANGED store_vars
  /\ UNCHANGED rest_vars

Init ==
  /\ password \in TransformInputs
  /\ InitCore
  /\ InitStore
  /\ InitRest

Next == AnalyzePassword \/ TransformPassword

Spec == Init /\ [][Next]_vars

(***************************************************************************)
(* The pattern store: learn, save, reload                                  *)
(***************************************************************************)
\* most learn calls in a run of the store
MaxLearn == 3

LearnPatternTypes == {"common", "mixed"}

AggressiveSettings ==
  [present |-> BoolKeys \cup {"intensity"}, character_substitution |-> TRUE,
   add_year |-> FALSE, intelligent_patterns |-> TRUE, preserve_strong |-> TRUE,
   increment_numbers |-> TRUE, intensity |-> "aggressive"]

LearnSettings == {EmptySettings, AggressiveSettings}

\* success scores 0.0, 0.5 and 1.0
Scores == {0, RateScale \div 2, RateScale}

InitLearner ==
  /\ password = PyStr(<<>>)
  /\ InitCore
  /\ InitStore
  /\ InitRest

LearnAny ==
  /\ Len(transformation_history) < MaxLearn
  /\ \E pattern_type \in LearnPatternTypes, st \in LearnSettings, success_score \in Scores :
        Learn(pattern_type, st, success_score)

NextLearner == LearnAny \/ SaveModels \/ NewPatternLearner

SpecLearner == InitLearner /\ [][NextLearner]_vars

(***************************************************************************)
(* A run of learn calls with success score 1.0 for one pattern type        *)
(***************************************************************************)
\* learn calls with any score before the run
MaxBefore == 2

\* length of the run
MaxStreak == 21

LearnBefore ==
  /\ Len(transformation_history) < MaxBefore
  /\ \E pattern_type \in LearnPatternTypes, st \in LearnSettings, success_score \in Scores :
        Learn(pattern_type, st, success_score)

LearnSuccess ==
  /\ Len(transformation_history) < MaxBefore + MaxStreak
  /\ Learn("common", EmptySettings, RateScale)

NextStreak == LearnBefore \/ LearnSuccess

SpecStreak == InitLearner /\ [][NextStreak]_vars

(***************************************************************************)
(* A long run of learn calls, with reloads                                 *)
(***************************************************************************)
\* most records in memory in a long run
MaxWindow == 1001

LearnOne ==
  /\ Len(transformation_history) < MaxWindow
  /\ Learn("common", EmptySettings, RateScale)

NextWindow == LearnOne \/ NewPatternLearner

SpecWindow == InitLearner /\ [][NextWindow]_vars

(***************************************************************************)
(* Learn calls of which a few carry a report with a nan or an inf          *)
(***************************************************************************)
\* most records in a run with refits
MaxRefit == 41

\* most records with a nan or an inf among them
MaxOdd == 1

LearnFinite ==
  /\ Len(transformation_history) < MaxRefit
  /\ Learn("common", EmptySettings, RateScale)

LearnOdd ==
  /\ Len(transformation_history) < MaxRefit
  /\ Cardinality({i \in 1..Len(transformation_history) :
                    transformation_history[i].original_features # "finite"}) < MaxOdd
  /\ \E features \in FeatureKinds \ {"finite"} :
       LearnFeatures("common", EmptySettings, RateScale, features)

NextRefit == LearnFinite \/ LearnOdd

SpecRefit == InitLearner /\ [][NextRefit]_vars

(***************************************************************************)
(* TransformationStrategies.increment_numbers applied to a password and    *)
(* then to its own result                                                  *)
(***************************************************************************)
\* the largest number in the password that is incremented once more
MaxNumber == 2040

\* calendar years before, at and after the upper limit of the year case
IncrementYears == {2026, 2030, 2031}

\* digit runs alone, with leading zeros, and embedded in a password
IncrementInputs ==
  {<<d>> : d \in ReDigit}
  \cup { <<"0", "0">>, <<"0", "7">>, <<"1", "0">>, <<"0", "0", "9">>,
         <<"0", "1", "2", "3">>, <<"2", "0", "1", "9">>, <<"2", "0", "3", "1">>,
         <<"9", "9", "9", "9">>,
         <<"x", "9", "y", "9", "9">>,
         <<"a", "b", "2", "0", "1", "9", "!", "1", "2", "1">> }

InitIncrement ==
  /\ password \in {PyStr(s) : s \in IncrementInputs}
  /\ current_year \in IncrementYears
  /\ analysis = NoResult
  /\ settings = EmptySettings
  /\ transformed = NoResult
  /\ InitStore
  /\ InitRest

\* the argument of the next increment_numbers call: the password, then the
\* result of the call before
increment_argument ==
  IF transformed = NoResult THEN password.val ELSE transformed.val

\* the values of the digit runs of s, left to right
run_values(s) ==
  LET runs == digit_runs(s, 1)
  IN [k \in 1..Len(runs) |-> int(SubSeq(s, runs[k][1], runs[k][2]))]

IncrementNumbers ==
  /\ \A k \in DOMAIN run_values(increment_argument) :
        transformed = NoResult \/ run_values(increment_argument)[k] < MaxNumber
  /\ transformed' = Returned("str", increment_numbers(increment_argument, current_year))
  /\ UNCHANGED <<password, current_year, analysis, settings>>
  /\ UNCHANGED store_vars
  /\ UNCHANGED rest_vars

NextIncrement == IncrementNumbers

SpecIncrement == InitIncrement /\ [][NextIncrement]_vars

(***************************************************************************)
(* _enhance_weak_password step by step: transformed holds the local        *)
(* variable transformed of the method and the step that assigned it        *)
(***************************************************************************)
\* weak and very_weak passwords with and without uppercase letters
WeakInputs ==
  { <<"x", "9">>, <<"q", "w", "e", "r", "t", "y", "1">>, <<"1", "2", "3", "4", "5">>,
    <<"h", "e", "l", "l", "o", "!", "!">>, <<"A", "B", "C", "D">>, <<"S", "e", "a", "t">>,
    <<"a", "s", "d", "f", "!", "1">>, <<"G", "O", "a", "l", "!">>, <<"a">> }

\* the settings that the very_weak/weak branch reads
WeakSettings ==
  {st \in SettingsSet : st.preserve_strong /\ st.increment_numbers}

InitWeak ==
  /\ password \in {PyStr(s) : s \in WeakInputs}
  /\ InitCore
  /\ InitStore
  /\ InitRest

\* the local transformed after a step of the method
Local(step, x) ==
  IF x = ValueError THEN Raised("ValueError") ELSE [kind |-> "local", step |-> step, val |-> x]

EnhanceWeak ==
  /\ analysis.kind = "report"
  /\ analysis.strength_level \in {"very_weak", "weak"}
  /\ ~Falsy(password)
  /\ transformed = NoResult
  /\ \E st \in WeakSettings :
       /\ settings' = st
       /\ transformed' \in {Local("enhanced", x) :
                              x \in weak_enhanced(password.val, analysis, st, current_year)}
  /\ UNCHANGED <<password, current_year, analysis>>
  /\ UNCHANGED store_vars
  /\ UNCHANGED rest_vars

SubstituteWeak ==
  /\ transformed.kind = "local"
  /\ transformed.step = "enhanced"
  /\ transformed' \in {Local("substituted", y) : y \in weak_substituted(transformed.val, settings)}
  /\ UNCHANGED <<password, current_year, analysis, settings>>
  /\ UNCHANGED store_vars
  /\ UNCHANGED rest_vars

CompleteWeak ==
  /\ transformed.kind = "local"
  /\ transformed.step = "substituted"
  /\ transformed' \in {IF r = ValueError THEN Raised("ValueError") ELSE Returned("str", r) :
                         r \in weak_completed(transformed.val, analysis, settings,
                                              current_year)}
  /\ UNCHANGED <<password, current_year, analysis, settings>>
  /\ UNCHANGED store_vars
  /\ UNCHANGED rest_vars

NextWeak == AnalyzePassword \/ EnhanceWeak \/ SubstituteWeak \/ CompleteWeak

SpecWeak == InitWeak /\ [][NextWeak]_vars

(***************************************************************************)
(* The recommendation engine: feedback, settings changes, then queries     *)
(***************************************************************************)
\* most learn_from_user_feedback calls before a prediction
MaxFeedback == 3

\* most learn_from_user_feedback calls before a recommendation
MaxEngineFeedback == 1

\* most track_settings_change calls for one setting
MaxChange == 4

\* one password of every strength level
EngineCorpus ==
  { <<"p", "a", "s", "s", "w", "o", "r", "d">>,
    <<"q", "w", "e", "r", "t", "y", "1">>,
    <<"1", "9", "9", "9", "b", "1", "Q">>,
    <<"Q", "s", "A", "A", "Q", "a", "A", "Q", "x">>,
    <<"T", "r", "0", "u", "b", "4", "d", "o", "r", "&", "3">> }

ConservativeSettings ==
  [present |-> BoolKeys \cup {"intensity"}, character_substitution |-> FALSE,
   add_year |-> FALSE, intelligent_patterns |-> FALSE, preserve_strong |-> TRUE,
   increment_numbers |-> FALSE, intensity |-> "conservative"]

FeedbackSettings == {ConservativeSettings, AggressiveSettings}

Ratings == {2, 4, 10}

Emails ==
  { NoEmail,
    [type |-> "str", val |-> <<"a", "@", "g", "m", "a", "i", "l", ".", "c", "o", "m">>],
    [type |-> "str", val |-> <<"b", "@", "m", "i", "t", ".", "e", "d", "u">>],
    [type |-> "str", val |-> <<"c", "@", "x", ".", "n", "e", "t">>] }

Contexts ==
  { NoContext,
    [type |-> "dict", val |-> {}],
    [type |-> "dict", val |-> {"high_security"}],
    [type |-> "dict", val |-> {"batch_processing"}],
    [type |-> "dict", val |-> {"high_security", "batch_processing"}] }

InitEngine ==
  /\ password \in {PyStr(s) : s \in EngineCorpus}
  /\ InitCore
  /\ InitStore
  /\ InitRest

\* no query has been made yet and no second engine constructed; neither
\* changes the stores
NoQuery == prediction = NoResult /\ recommendation = NoResult /\ reloaded = NoResult

\* learn_from_user_feedback for the analysed password, at most max times
Feedback(max) ==
  /\ analysis.kind = "report"
  /\ NoQuery
  /\ Len(transformation_history) < max
  /\ \E st \in FeedbackSettings, user_rating \in Ratings, accepted \in BOOLEAN :
       LET success_score ==
             Min(RateScale, 5 * (RateScale \div 10)
                            + (IF accepted THEN 3 * (RateScale \div 10) ELSE 0)
                            + user_rating * 2 * (RateScale \div 100))
           pattern_type == analysis.pattern_type
           pattern == [pattern_type |-> pattern_type, settings_used |-> st,
                       success_score |-> success_score, original_features |-> "finite"]
           database == Put(pattern_database, pattern_type,
                           Append(dict_get(pattern_database, pattern_type, <<>>), pattern))
           history == Append(transformation_history, pattern)
           rates == _update_success_rates(success_rates, pattern_type, success_score, st)
           after == AfterLearn(history, database, rates)
           prefs == _update_preferences_from_feedback(user_preferences, st, user_rating,
                                                      accepted, pattern_type)
       IN /\ pattern_database' = database
          /\ transformation_history' = history
          /\ success_rates' = rates
          /\ cluster_model' = after.cluster_model
          /\ scaler' = after.scaler
          /\ cluster_model_pkl' =
               SavedModel(after.cluster_model, after.scaler, after.cluster_model_pkl)
          /\ learning_data_json' = SavedData(database, rates, history)
          /\ user_preferences' = prefs
          /\ user_preferences_table' = _save_preferences(user_preferences_table, prefs)
  /\ UNCHANGED core_vars
  /\ UNCHANGED engine_vars
  /\ UNCHANGED batch_vars
  /\ UNCHANGED learners

\* track_settings_change
TrackSettingsChange ==
  /\ NoQuery
  /\ \E setting_name \in {"add_year"}, new_value \in {PyBool(b) : b \in BOOLEAN} :
       LET prefs == _learn_setting_preference(user_preferences, spell[setting_name],
                                              new_value)
       IN /\ dict_get(user_preferences, spell[setting_name], [count |-> 0]).count < MaxChange
          /\ user_preferences' = prefs
          /\ user_preferences_table' = _save_preferences(user_preferences_table, prefs)
  /\ UNCHANGED core_vars
  /\ UNCHANGED store_vars
  /\ UNCHANGED engine_vars
  /\ UNCHANGED batch_vars
  /\ UNCHANGED learners

PredictBestSettings ==
  /\ analysis.kind = "report"
  /\ prediction = NoResult
  /\ prediction' \in predict_best_settings(success_rates, transformation_history, analysis)
  /\ UNCHANGED <<email, context, ml_recommendations, behavior_recommendations,
                 context_adjustments, recommendation, reloaded>>
  /\ UNCHANGED core_vars
  /\ UNCHANGED store_vars
  /\ UNCHANGED tracker_vars
  /\ UNCHANGED batch_vars
  /\ UNCHANGED learners

GetSmartRecommendations ==
  /\ analysis.kind = "report"
  /\ recommendation = NoResult
  /\ \E e \in Emails, ctx \in Contexts :
       /\ email' = e
       /\ context' = ctx
       /\ \E run \in smart_recommendation_runs(success_rates, transformation_history,
                                                user_preferences, analysis, e, ctx) :
            /\ ml_recommendations' = run.ml_recommendations
            /\ behavior_recommendations' = run.behavior_recommendations
            /\ context_adjustments' = run.context_adjustments
            /\ recommendation' = run.recommendation
  /\ UNCHANGED <<prediction, reloaded>>
  /\ UNCHANGED core_vars
  /\ UNCHANGED store_vars
  /\ UNCHANGED tracker_vars
  /\ UNCHANGED batch_vars
  /\ UNCHANGED learners

LearnFromUserFeedback == Feedback(MaxFeedback)

NextFeedback == AnalyzePassword \/ LearnFromUserFeedback \/ PredictBestSettings

\* feedback followed by a prediction
SpecFeedback == InitEngine /\ [][NextFeedback]_vars

FeedbackBeforeQuery == Feedback(MaxEngineFeedback)

NextEngine ==
  \/ AnalyzePassword
  \/ FeedbackBeforeQuery
  \/ TrackSettingsChange
  \/ GetSmartRecommendations

\* feedback and settings changes followed by a recommendation
SpecEngine == InitEngine /\ [][NextEngine]_vars

\* most learn_from_user_feedback calls before the second engine
MaxReloadFeedback == 2

\* RecommendationEngine(model_dir, db_path) on the directories of the first:
\* its PatternLearner runs load_models, its BehaviorTracker _load_preferences
NewRecommendationEngine ==
  /\ reloaded = NoResult
  /\ reloaded' =
       [kind |-> "engine",
        success_rates |-> LoadedRates(learning_data_json),
        transformation_history |->
          IF learning_data_json.exists
          THEN learning_data_json.transformation_history ELSE <<>>,
        user_preferences |-> _load_preferences(user_preferences_table)]
  /\ UNCHANGED <<email, context, prediction, ml_recommendations,
                 behavior_recommendations, context_adjustments, recommendation>>
  /\ UNCHANGED core_vars
  /\ UNCHANGED store_vars
  /\ UNCHANGED tracker_vars
  /\ UNCHANGED batch_vars
  /\ UNCHANGED learners

FeedbackBeforeReload == Feedback(MaxReloadFeedback)

NextReload ==
  \/ AnalyzePassword
  \/ FeedbackBeforeReload
  \/ TrackSettingsChange
  \/ NewRecommendationEngine

\* feedback and settings changes, each saving its store, then a second engine
SpecReload == InitEngine /\ [][NextReload]_vars

(***************************************************************************)
(* learn_transformation_pattern called from several threads.  The method   *)
(* takes no lock; a thread can be switched out between any two of its      *)
(* reads and writes of the store.                                          *)
(***************************************************************************)
\* the thread t moves to the position pc with its locals changed
Step(t, pc, locals) ==
  learners' = [learners EXCEPT ![t] = [k \in DOMAIN @ \cup DOMAIN locals \cup {"pc"} |->
                                         IF k = "pc" THEN pc
                                         ELSE IF k \in DOMAIN locals THEN locals[k]
                                         ELSE @[k]]]

\* the call is entered and the pattern record created (lines 70-89)
EnterLearn(t) ==
  /\ learners[t].pc = "idle"
  /\ \E st \in LearnSettings, success_score \in Scores :
       Step(t, "entered", [pattern |-> [pattern_type |-> "common", settings_used |-> st,
                                        success_score |-> success_score,
                                        original_features |-> "finite"]])
  /\ UNCHANGED store_vars

\* self.pattern_database[pattern_key].append(pattern) (line 93)
AppendToDatabase(t) ==
  /\ learners[t].pc = "entered"
  /\ LET pattern == learners[t].pattern
     IN pattern_database' =
          Put(pattern_database, pattern.pattern_type,
              Append(dict_get(pattern_database, pattern.pattern_type, <<>>), pattern))
  /\ Step(t, "in_database", [pc |-> "in_database"])
  /\ UNCHANGED <<success_rates, transformation_history, cluster_model,
                 scaler, learning_data_json, cluster_model_pkl>>

\* self.transformation_history.append(pattern) (line 94)
AppendToHistory(t) ==
  /\ learners[t].pc = "in_database"
  /\ transformation_history' = Append(transformation_history, learners[t].pattern)
  /\ Step(t, "in_history", [pc |-> "in_history"])
  /\ UNCHANGED <<success_rates, pattern_database, cluster_model,
                 scaler, learning_data_json, cluster_model_pkl>>

\* current_rate = self.success_rates[pattern_type] (line 117); a missing key
\* of the defaultdict(float) is inserted with 0.0
ReadRate(t) ==
  /\ learners[t].pc = "in_history"
  /\ LET pattern_type == learners[t].pattern.pattern_type
     IN /\ success_rates' = Put(success_rates, pattern_type,
                                dict_get(success_rates, pattern_type, 0))
        /\ Step(t, "rate_read",
                [current_rate |-> dict_get(success_rates, pattern_type, 0)])
  /\ UNCHANGED <<pattern_database, transformation_history, cluster_model,
                 scaler, learning_data_json, cluster_model_pkl>>

\* self.success_rates[pattern_type] = current_rate * 0.8 + success_score * 0.2
\* (line 121)
WriteRate(t) ==
  /\ learners[t].pc = "rate_read"
  /\ success_rates' = Put(success_rates, learners[t].pattern.pattern_type,
                          WeightedAverage(learners[t].current_rate,
                                          learners[t].pattern.success_score))
  /\ Step(t, "rate_written", [pc |-> "rate_written"])
  /\ UNCHANGED <<pattern_database, transformation_history, cluster_model,
                 scaler, learning_data_json, cluster_model_pkl>>

\* f"{pattern_type}_{intensity}" of the thread's call
setting_key_of(t) ==
  learners[t].pattern.pattern_type \o "_"
    \o get(learners[t].pattern.settings_used, "intensity", "moderate")

\* self.success_rates.get(setting_key, 0.5), the read of line 126
ReadSettingRate(t) ==
  /\ learners[t].pc = "rate_written"
  /\ Step(t, "setting_read",
          [setting_rate |-> dict_get(success_rates, setting_key_of(t), RateScale \div 2)])
  /\ UNCHANGED store_vars

\* the store of lines 126-127, then the test of line 100 and the return
WriteSettingRate(t) ==
  /\ learners[t].pc = "setting_read"
  /\ LET rates == Put(success_rates, setting_key_of(t),
                      WeightedAverage(learners[t].setting_rate,
                                      learners[t].pattern.success_score))
         after == AfterLearn(transformation_history, pattern_database, rates)
     IN /\ success_rates' = rates
        /\ cluster_model' = after.cluster_model
        /\ scaler' = after.scaler
        /\ cluster_model_pkl' = after.cluster_model_pkl
        /\ learning_data_json' = after.learning_data_json
  /\ Step(t, "done", [pc |-> "done"])
  /\ UNCHANGED <<pattern_database, transformation_history>>

\* one step of one thread
LearnStep(t) ==
  /\ \/ EnterLearn(t)
     \/ AppendToDatabase(t)
     \/ AppendToHistory(t)
     \/ ReadRate(t)
     \/ WriteRate(t)
     \/ ReadSettingRate(t)
     \/ WriteSettingRate(t)
  /\ UNCHANGED core_vars
  /\ UNCHANGED tracker_vars
  /\ UNCHANGED engine_vars
  /\ UNCHANGED batch_vars

NextThreads == \E t \in Threads : LearnStep(t)

\* two threads, one learn call each, on a new PatternLearner
SpecThreads == InitLearner /\ [][NextThreads]_vars

(***************************************************************************)
(* Batch processing: PasswordTransformerApp._process_passwords_thread      *)
(***************************************************************************)
\* most pairs in the loaded file
MaxBatch == 2

\* pairs a loaded file can hold: the loader keeps no empty password
BatchItems ==
  { <<"u1@x.net", <<"1", "2", "3", "4", "5">> >>,
    <<"u2@x.net", <<"0", "!", "sup2", "sup2", "sup2", "a", "A">> >>,
    <<"u3@x.net", <<"T", "r", "0", "u", "b", "4", "d", "o", "r", "&", "3">> >> }

\* the files of one to MaxBatch pairs
BatchInputs == UNION {[1..n -> BatchItems] : n \in 1..MaxBatch}

\* _get_current_settings(): always the six keys
GuiSettings == {AggressiveSettings, ConservativeSettings}

\* transform_password(password, analysis, settings, email) followed by
\* learn_from_transformation, of the transformer built with enable_ml=True:
\* it returns what the transformation returns, or either call raises
enhanced_transform_password(v, a, st, year, e) ==
  transform_password(v, a, st, year) \cup {Raised("Exception")}

\* what the body of the inner try gives for one pair: the new password, or
\* the exception the inner except clause catches
process_item(v, a, st, year, e, ml) ==
  IF a.kind = "raised" THEN {a}
  ELSE IF ml THEN enhanced_transform_password(v, a, st, year, e)
  ELSE transform_password(v, a, st, year)

\* processed_data when a pair that failed is left out
appended_dropping(data, e, pw, outcome) ==
  IF outcome.kind = "returned" THEN Append(data, <<e, outcome.val>>) ELSE data

\* processed_data after the pair (email, password) gave the outcome
appended(data, e, pw, outcome) ==
  Append(data, IF outcome.kind = "returned" THEN <<e, outcome.val>> ELSE <<e, pw>>)

\* the thread has been started on a loaded file
InitBatch ==
  /\ InitCore
  /\ InitStore
  /\ InitSession
  /\ password = PyNone
  /\ ml_available \in BOOLEAN
  /\ input_data \in BatchInputs
  /\ processed_data = <<>>
  /\ failed_transformations = 0
  /\ completion = NoResult
  /\ NoLearners

\* settings = self._get_current_settings(), before the loop
GetCurrentSettings ==
  /\ completion = NoResult
  /\ processed_data = <<>>
  /\ settings = EmptySettings
  /\ settings' \in GuiSettings
  /\ UNCHANGED <<password, current_year, analysis, transformed>>
  /\ UNCHANGED store_vars
  /\ UNCHANGED tracker_vars
  /\ UNCHANGED engine_vars
  /\ UNCHANGED batch_vars
  /\ UNCHANGED learners

\* one turn of the loop over input_data
ProcessItem ==
  /\ completion = NoResult
  /\ settings \in GuiSettings
  /\ Len(processed_data) < Len(input_data)
  /\ LET pair == input_data[Len(processed_data) + 1]
         v == PyStr(pair[2])
     IN \E a \in analyze_password(v) :
          \E outcome \in process_item(v, a, settings, current_year, pair[1], ml_available) :
            /\ password' = v
            /\ analysis' = a
            /\ transformed' = outcome
            /\ processed_data' = appended(processed_data, pair[1], pair[2], outcome)
            /\ failed_transformations' =
                 IF outcome.kind = "returned" THEN failed_transformations
                 ELSE failed_transformations + 1
  /\ UNCHANGED <<current_year, settings>>
  /\ UNCHANGED store_vars
  /\ UNCHANGED tracker_vars
  /\ UNCHANGED engine_vars
  /\ UNCHANGED <<ml_available, input_data, completion, learners>>

\* after the loop: the file is written and _processing_complete scheduled,
\* or writing fails and _processing_error is
SaveResults ==
  /\ completion = NoResult
  /\ settings \in GuiSettings
  /\ Len(processed_data) = Len(input_data)
  /\ \E saved \in BOOLEAN :
       completion' =
         IF saved
         THEN [kind |-> "complete", output_data |-> processed_data,
               count |-> Len(processed_data) - failed_transformations,
               failed_count |-> failed_transformations]
         ELSE [kind |-> "error"]
  /\ UNCHANGED core_vars
  /\ UNCHANGED store_vars
  /\ UNCHANGED tracker_vars
  /\ UNCHANGED engine_vars
  /\ UNCHANGED <<ml_available, input_data, processed_data, failed_transformations,
                 learners>>

NextBatch == GetCurrentSettings \/ ProcessItem \/ SaveResults

SpecBatch == InitBatch /\ [][NextBatch]_vars

(***************************************************************************)
(* Properties                                                              *)
(***************************************************************************)
\* C1: the strength level of a report is very_strong from 80, strong from 60,
\* moderate from 40, weak from 20 (each bound included) and very_weak below,
\* and no score at or above the report's score has a lower level, nor a score
\* at or below it a higher one.
C1_LevelIsStepOfScore ==
  analysis.kind = "report" =>
    LET rank == [l \in {"very_weak", "weak", "moderate", "strong", "very_strong"} |->
                   CASE l = "very_weak" -> 0 [] l = "weak" -> 1 [] l = "moderate" -> 2
                     [] l = "strong" -> 3 [] l = "very_strong" -> 4]
        sc == analysis.strength_score
    IN /\ sc >= 800 => analysis.strength_level = "very_strong"
       /\ sc >= 600 /\ sc < 800 => analysis.strength_level = "strong"
       /\ sc >= 400 /\ sc < 600 => analysis.strength_level = "moderate"
       /\ sc >= 200 /\ sc < 400 => analysis.strength_level = "weak"
       /\ sc < 200 => analysis.strength_level = "very_weak"
       /\ \A other \in 0..1000 :
            /\ other >= sc => rank[_get_strength_level(other)] >= rank[analysis.strength_level]
            /\ other <= sc => rank[_get_strength_level(other)] <= rank[analysis.strength_level]

\* a password whose score is exactly 80.0 was analysed as very_strong
C1_Witness ==
  /\ analysis.kind = "report"
  /\ analysis.strength_score = 800
  /\ analysis.strength_level = "very_strong"

\* C2: for a non-empty password the strength score is within rounding (0.05)
\* of 0.4*complexity + min(2.5*length, 20) + 5 per character class present
\* + min(entropy/4, 15) + 10*diversity - penalties, clamped to [0, 100], where
\* complexity is min(4*length, 25) + 2/2/4/6 per class + 2 per inner digit or
\* special, capped at 100; the score is never below 0 or above 100.
C2_ScoreIsClampedFormula ==
  (analysis.kind = "report" /\ password.type = "str" /\ password.val # <<>>) =>
    LET s == password.val
        n == Len(s)
        inner == {i \in 2..(n - 1) : s[i] \in ReDigit \cup ReSpecial}
        classes == Cardinality({c \in {"has_lowercase", "has_uppercase", "has_digits",
                                       "has_special"} : analysis[c]})
        complexity == Min(100, Min(4 * n, 25)
                               + (IF analysis.has_lowercase THEN 2 ELSE 0)
                               + (IF analysis.has_uppercase THEN 2 ELSE 0)
                               + (IF analysis.has_digits THEN 4 ELSE 0)
                               + (IF analysis.has_special THEN 6 ELSE 0)
                               + 2 * Cardinality(inner))
        penalties == (IF analysis.is_common THEN 30 ELSE 0)
                   + (IF analysis.has_keyboard_pattern THEN 15 ELSE 0)
                   + (IF analysis.has_repeated_chars THEN 10 ELSE 0)
                   + (IF analysis.has_sequential THEN 10 ELSE 0)
                   + (IF analysis.has_dictionary_word THEN 10 ELSE 0)
                   + (IF n < 8 THEN 15 ELSE 0)
        \* 400 * n * (the unclamped score)
        raw == 160 * n * complexity + n * Min(1000 * n, 8000) + 2000 * n * classes
               + n * Min(analysis.entropy, 6000)
               + 4000 * Cardinality({s[i] : i \in 1..n})
               - 400 * n * penalties
        clamped == Max(0, Min(40000 * n, raw))
        \* 400 * n * (the reported score)
        reported == 40 * n * analysis.strength_score
    IN /\ analysis.complexity_score = complexity
       /\ analysis.strength_score >= 0 /\ analysis.strength_score <= 1000
       /\ 2 * (reported - clamped) <= 40 * n
       /\ 2 * (clamped - reported) <= 40 * n

\* a password whose unclamped score exceeds 100 was analysed with score 100
C2_Witness ==
  /\ analysis.kind = "report"
  /\ password.type = "str" /\ password.val # <<>>
  /\ StrengthNumerator(analysis) > 100 * 400 * analysis.length
  /\ analysis.strength_score = 1000

\* C3: the analysis of the empty string has strength_score 0, strength_level
\* very_weak and pattern_type "empty".
C3_EmptyAnalysis ==
  (password = PyStr(<<>>) /\ analysis.kind # "none") =>
    /\ analysis.kind = "report"
    /\ analysis.strength_score = 0
    /\ analysis.strength_level = "very_weak"
    /\ analysis.pattern_type = "empty"

\* the empty string was analysed
C3_Witness == password = PyStr(<<>>) /\ analysis.kind = "report"

\* C4: the pattern type of a non-empty password is the first that matches in
\* the order common, numeric, alphabetic, word_with_numbers, numbers_with_word,
\* keyboard_pattern, word_with_symbols, mixed.
C4_FirstMatchWins ==
  (analysis.kind = "report" /\ password.type = "str" /\ password.val # <<>>) =>
    LET s == password.val
        matches ==
          << <<"common", lower(s) \in common_passwords>>,
             <<"numeric", \A i \in 1..Len(s) : s[i] \in StrIsDigit>>,
             <<"alphabetic", \A i \in 1..Len(s) : s[i] \in StrIsAlpha>>,
             <<"word_with_numbers", LettersThen(s, ReDigit)>>,
             <<"numbers_with_word", DigitsThenLetters(s)>>,
             <<"keyboard_pattern", _check_keyboard_patterns(s)>>,
             <<"word_with_symbols", LettersThen(s, ReSpecial)>>,
             <<"mixed", TRUE>> >>
        first == CHOOSE k \in 1..Len(matches) :
                   matches[k][2] /\ \A j \in 1..(k - 1) : ~matches[j][2]
    IN analysis.pattern_type = matches[first][1]

\* letters followed by digits that contain a keyboard run were classified as
\* word_with_numbers
C4_Witness ==
  /\ analysis.kind = "report" /\ password.type = "str"
  /\ LettersThen(password.val, ReDigit)
  /\ _check_keyboard_patterns(password.val)
  /\ ~_check_common_password(password.val)
  /\ analysis.pattern_type = "word_with_numbers"

\* C5: a very_strong password without a (19|20)dd year token, transformed with
\* preserve_strong set, is returned unchanged whatever the other settings are.
C5_StrongPreserved ==
  ( /\ transformed.kind # "none"
    /\ password.type = "str"
    /\ analysis.strength_level = "very_strong"
    /\ get(settings, "preserve_strong", TRUE)
    /\ ~\E i \in 1..(Len(password.val) - 3) :
          /\ <<password.val[i], password.val[i + 1]>> \in {<<"1", "9">>, <<"2", "0">>}
          /\ password.val[i + 2] \in ReDigit /\ password.val[i + 3] \in ReDigit )
  => transformed = Returned("str", password.val)

\* such a password was transformed with add_year and every other toggle set
C5_Witness ==
  /\ transformed.kind = "returned"
  /\ password.type = "str"
  /\ analysis.strength_level = "very_strong"
  /\ year_match(password.val) = 0
  /\ settings.present = BoolKeys \cup {"intensity"}
  /\ settings.preserve_strong /\ settings.add_year /\ settings.character_substitution
  /\ settings.intensity = "aggressive"

\* C6: a transformation of a string password with its own report never
\* raises, whatever the settings: it returns a string, and the empty password
\* is returned unchanged.
C6_TransformNeverRaises ==
  (password.type = "str" /\ transformed.kind # "none") =>
    /\ transformed.kind = "returned"
    /\ transformed.type = "str"
    /\ password.val = <<>> => transformed.val = <<>>

\* C7: a value that is not a string is rejected with an error by the analysis
\* and by the transformation; it never yields a report or a returned value.
C7_MalformedRejected ==
  password.type # "str" =>
    /\ analysis.kind \in {"none", "raised"}
    /\ transformed.kind \in {"none", "raised"}

\* C8: every stored success rate lies in [0, 1], and a learn call with the
\* score x moves the rate r of its pattern type (0 when absent) and of its
\* pattern type and intensity (0.5 when absent) to 0.8*r + 0.2*x, leaving
\* every other rate as it was.
C8_RatesAreWeightedAverages ==
  /\ [](\A k \in DOMAIN success_rates : success_rates[k] >= 0 /\ success_rates[k] <= RateScale)
  /\ [][ (transformation_history' # <<>>
          /\ transformation_history =
               SubSeq(transformation_history', 1, Len(transformation_history') - 1))
         => LET rec == transformation_history'[Len(transformation_history')]
                x == rec.success_score
                type_key == rec.pattern_type
                setting_key == rec.pattern_type \o "_"
                               \o (IF "intensity" \in rec.settings_used.present
                                   THEN rec.settings_used.intensity ELSE "moderate")
                before(k, default) ==
                  IF k \in DOMAIN success_rates THEN success_rates[k] ELSE default
                near(new, old) ==
                  /\ 10 * new - (8 * old + 2 * x) <= 5
                  /\ (8 * old + 2 * x) - 10 * new <= 5
            IN /\ DOMAIN success_rates' = DOMAIN success_rates \cup {type_key, setting_key}
               /\ near(success_rates'[type_key], before(type_key, 0))
               /\ near(success_rates'[setting_key], before(setting_key, RateScale \div 2))
               /\ \A k \in DOMAIN success_rates \ {type_key, setting_key} :
                    success_rates'[k] = success_rates[k] ]_vars

\* two learn calls with score 1.0 took the rate of "common" from 0 to 0.36
\* and that of "common_aggressive" from 0.5 to 0.68
C8_Witness ==
  /\ Len(transformation_history) = 2
  /\ "common" \in DOMAIN success_rates
  /\ success_rates["common"] = 36 * (RateScale \div 100)
  /\ "common_aggressive" \in DOMAIN success_rates
  /\ success_rates["common_aggressive"] = 68 * (RateScale \div 100)

\* C9: when the last 20 or more records of a pattern type all have the
\* success score 1.0, the success rate of that pattern type is above 0.9,
\* whatever the records before them were.
C9_ConvergesAboveNineTenths ==
  \A pt \in DOMAIN pattern_database :
    LET h == pattern_database[pt]
    IN (Len(h) >= 20
        /\ \A i \in (Len(h) - 19)..Len(h) : h[i].success_score = RateScale)
       => (pt \in DOMAIN success_rates /\ 10 * success_rates[pt] > 9 * RateScale)

\* a record with score 0 for "common" was followed by 20 with score 1.0
C9_Witness ==
  /\ "common" \in DOMAIN pattern_database
  /\ LET h == pattern_database["common"]
     IN /\ Len(h) = 21
        /\ h[1].success_score = 0
        /\ \A i \in 2..21 : h[i].success_score = RateScale
  /\ 10 * success_rates["common"] > 9 * RateScale

\* C10: the store never holds more than 1000 records in its history.
C10_HistoryBounded == Len(transformation_history) <= 1000

\* C11: the intensity a prediction recommends is one of those that feedback
\* is recorded under (conservative, moderate, aggressive; "light" read as
\* conservative), and no intensity has a learned success rate for the
\* analysed pattern type above the rate of the recommended one (its learned
\* rate, or the rate predict assumes for it when nothing was learned).
C11_RecommendsBestLearnedIntensity ==
  prediction.kind = "prediction" =>
    LET pattern_type == analysis.pattern_type
        recommended == IF prediction.recommended_intensity = "light"
                       THEN "conservative"
                       ELSE prediction.recommended_intensity
        assumed == [i \in Intensities |->
                      CASE i = "conservative" -> 5 * (RateScale \div 10)
                        [] i = "moderate" -> 6 * (RateScale \div 10)
                        [] i = "aggressive" -> 7 * (RateScale \div 10)]
        rate(i) == dict_get(success_rates, pattern_type \o "_" \o i, assumed[i])
    IN /\ recommended \in Intensities
       /\ \A i \in Intensities :
            (pattern_type \o "_" \o i) \in DOMAIN success_rates
              => rate(i) <= rate(recommended)

\* C12: a feedback observation of a boolean setting with weight
\* w = max(0.1, rating / 10) when accepted and 0.05 otherwise, for a key that
\* already has a preference with confidence c: when the observed value is the
\* stored one the value is kept and the confidence becomes min(0.95, c + w),
\* which is not below c and not above 0.95; when it differs the confidence is
\* lowered to max(0.05, c - w), and exactly when that is below 0.3 the stored
\* value becomes the observed one and the confidence 0.6.
C12_FeedbackMovesConfidence ==
  [][Len(transformation_history') = Len(transformation_history) + 1 =>
       LET record == transformation_history'[Len(transformation_history')]
           st == record.settings_used
       IN \E rating \in 0..10, accepted \in BOOLEAN :
            /\ record.success_score
                 = Min(RateScale, 5 * (RateScale \div 10)
                                  + (IF accepted THEN 3 * (RateScale \div 10) ELSE 0)
                                  + rating * 2 * (RateScale \div 100))
            /\ LET w == IF accepted THEN fmax(F0_1, RatingTenth[rating]) ELSE F0_05
               IN \A k \in st.present \cap BoolKeys :
                    LET key == pref_key(record.pattern_type, k)
                        observed == PyBool(st[k])
                    IN key \in DOMAIN user_preferences =>
                         LET c == user_preferences[key].confidence
                             stored == user_preferences[key].value
                             new == user_preferences'[key]
                             lowered == fmax(F0_05, fsub(c, w))
                         IN IF observed = stored
                            THEN /\ new.value = stored
                                 /\ new.confidence = fmin(F0_95, fadd(c, w))
                                 /\ ~fless(new.confidence, c)
                                 /\ ~fless(F0_95, new.confidence)
                            ELSE IF fless(lowered, F0_3)
                                 THEN new.value = observed /\ new.confidence = F0_6
                                 ELSE new.value = stored /\ new.confidence = lowered]_vars

\* the second observation of character_substitution for "common" disagreed with the first
\* and flipped the preference; the third agreed with the new value and
\* raised the confidence to the cap 0.95
C12_Witness ==
  /\ Len(transformation_history) = 3
  /\ transformation_history[1].pattern_type = "common"
  /\ transformation_history[1].settings_used.character_substitution = FALSE
  /\ transformation_history[2].settings_used.character_substitution = TRUE
  /\ transformation_history[3].settings_used.character_substitution = TRUE
  /\ LET key == pref_key("common", "character_substitution")
     IN /\ key \in DOMAIN user_preferences
        /\ user_preferences[key].value = PyBool(TRUE)
        /\ user_preferences[key].confidence = F0_95
        /\ user_preferences[key].count = 3

\* C13: the settings the behaviour tracker returns are the base settings
\* with, for every key, the value of the pattern-specific preference when its
\* confidence is above 0.6, else the value of the general preference (stored
\* under the setting's name) when its confidence is above 0.6, else the base
\* value; the general preferences include those learned from changes of the
\* five boolean settings.
C13_OverlaysConfidentPreferences ==
  recommendation.kind = "recommendation" =>
    LET base_settings == ml_recommendations.settings
        confident(key) == /\ key \in DOMAIN user_preferences
                          /\ fless(F0_6, user_preferences[key].confidence)
        preferred(key) == user_preferences[key].value = PyBool(TRUE)
    IN \A k \in DOMAIN base_settings :
         behavior_recommendations.settings[k]
           = IF confident(pref_key(analysis.pattern_type, k))
             THEN preferred(pref_key(analysis.pattern_type, k))
             ELSE IF confident(spell[k]) THEN preferred(spell[k])
             ELSE base_settings[k]

\* C14: every key of the final settings of a recommendation has the value of
\* the context adjustment when there is one for the key, else the value of
\* the behaviour tracker's settings when they have the key, else the value of
\* the prediction; the final settings have no other keys.
C14_ContextOverBehaviorOverPrediction ==
  recommendation.kind = "recommendation" =>
    /\ DOMAIN recommendation.settings
         = DOMAIN ml_recommendations.settings
           \cup DOMAIN behavior_recommendations.settings
           \cup DOMAIN context_adjustments.settings
    /\ \A k \in DOMAIN recommendation.settings :
         recommendation.settings[k]
           = IF k \in DOMAIN context_adjustments.settings
             THEN context_adjustments.settings[k]
             ELSE IF k \in DOMAIN behavior_recommendations.settings
             THEN behavior_recommendations.settings[k]
             ELSE ml_recommendations.settings[k]

\* a recommendation in which a context adjustment overrode a differing
\* behaviour value for one key, and the behaviour value overrode a differing
\* predicted value for another
C14_Witness ==
  /\ recommendation.kind = "recommendation"
  /\ \E k \in DOMAIN context_adjustments.settings :
       /\ behavior_recommendations.settings[k] # context_adjustments.settings[k]
       /\ recommendation.settings[k] = context_adjustments.settings[k]
  /\ \E k \in DOMAIN behavior_recommendations.settings \ DOMAIN context_adjustments.settings :
       /\ behavior_recommendations.settings[k] # ml_recommendations.settings[k]
       /\ recommendation.settings[k] = behavior_recommendations.settings[k]

\* C15: the confidence of a recommendation lies between 0 and 1 and is
\* exactly 0.3 times the confidence of the prediction plus 0.5 times the
\* confidence of the behaviour tracker's result plus 0.2 times the confidence
\* of the context adjustments.
C15_ConfidenceIsExactWeightedSum ==
  recommendation.kind = "recommendation" =>
    /\ 0 <= recommendation.confidence
    /\ recommendation.confidence <= RateScale
    /\ 10 * recommendation.confidence
         = 3 * ml_recommendations.confidence_score
           + 5 * behavior_recommendations.confidence
           + 2 * context_adjustments.confidence

\* C16: a recommendation asked for with high_security set in the context has
\* character_substitution, add_year and intelligent_patterns all true in its
\* final settings, whatever the password, the learned state and the email
\* (an absent email included).
C16_HighSecurityForcesSettings ==
  (/\ recommendation.kind = "recommendation"
   /\ context.type = "dict"
   /\ "high_security" \in context.val)
    => \A k \in {"character_substitution", "add_year", "intelligent_patterns"} :
         /\ k \in DOMAIN recommendation.settings
         /\ recommendation.settings[k]

\* C17: the intensity of a recommendation asked for with high_security set is
\* one step (light, moderate, aggressive; aggressive stays) above the
\* intensity of the recommendation the same call gives without that flag.
C17_HighSecurityRaisesIntensity ==
  (/\ recommendation.kind = "recommendation"
   /\ context.type = "dict"
   /\ "high_security" \in context.val)
    => LET one_step_above(i) == IF i = "light" THEN "moderate" ELSE "aggressive"
           unflagged == [context EXCEPT !.val = @ \ {"high_security"}]
       IN \E r \in get_smart_recommendations(success_rates, transformation_history,
                                             user_preferences, analysis, email, unflagged) :
            recommendation.intensity = one_step_above(r.intensity)

\* C18: an engine constructed on the files of another, after any feedback and
\* settings changes the other has saved, holds the same success rates, and
\* the same preferences with the same values and confidences.
C18_SaveLoadRoundTrip ==
  reloaded.kind = "engine" =>
    /\ reloaded.success_rates = success_rates
    /\ DOMAIN reloaded.user_preferences = DOMAIN user_preferences
    /\ \A key \in DOMAIN user_preferences :
         /\ reloaded.user_preferences[key].value = user_preferences[key].value
         /\ reloaded.user_preferences[key].confidence = user_preferences[key].confidence

\* the second engine was constructed after two feedbacks for "password" (the
\* rate of "common" is 0.1944) and a change of add_year; it holds a boolean
\* and a string preference
C18_Witness ==
  /\ reloaded.kind = "engine"
  /\ "common" \in DOMAIN reloaded.success_rates
  /\ reloaded.success_rates["common"] = 194400
  /\ spell["add_year"] \in DOMAIN reloaded.user_preferences
  /\ pref_key("common", "intensity") \in DOMAIN reloaded.user_preferences
  /\ reloaded.user_preferences[pref_key("common", "intensity")].value.type = "str"
  /\ reloaded.user_preferences[pref_key("common", "preserve_strong")].value = PyBool(TRUE)

\* C19: in a batch run the processed pairs are, in order, the pairs of the
\* input with the same identifiers; a pair whose analysis or transformation
\* raised is kept with its original password, adds one to the failure count
\* and does not end the run, a pair that did not raise adds nothing to it;
\* the run is only reported (complete, or failed on writing the file) after
\* every pair was processed, and a completed run reports one entry per input
\* pair and the failure count.
C19_BatchSurvivesItemFailures ==
  /\ [](/\ Len(processed_data) <= Len(input_data)
        /\ \A i \in 1..Len(processed_data) : processed_data[i][1] = input_data[i][1]
        /\ completion.kind # "none" => Len(processed_data) = Len(input_data)
        /\ completion.kind = "complete" =>
             /\ Len(completion.output_data) = Len(input_data)
             /\ \A i \in 1..Len(input_data) :
                  completion.output_data[i][1] = input_data[i][1]
             /\ completion.failed_count = failed_transformations
             /\ completion.count = Len(input_data) - failed_transformations)
  /\ [][(processed_data' # processed_data
         \/ failed_transformations' # failed_transformations) =>
          LET i == Len(processed_data) + 1
          IN /\ Len(processed_data') = i
             /\ SubSeq(processed_data', 1, i - 1) = processed_data
             /\ IF transformed'.kind = "returned"
                THEN /\ processed_data'[i] = <<input_data[i][1], transformed'.val>>
                     /\ failed_transformations' = failed_transformations
                ELSE /\ processed_data'[i] = input_data[i]
                     /\ failed_transformations' = failed_transformations + 1
                     /\ completion' = NoResult]_vars

\* a completed run of two pairs without the ML layer: the first raised and
\* kept its password, the second was transformed after it
C19_Witness ==
  /\ completion.kind = "complete"
  /\ ~ml_available
  /\ Len(input_data) = 2
  /\ completion.failed_count = 1
  /\ completion.count = 1
  /\ input_data[1][2] = <<"0", "!", "sup2", "sup2", "sup2", "a", "A">>
  /\ completion.output_data[1] = input_data[1]
  /\ completion.output_data[2][1] = input_data[2][1]
  /\ completion.output_data[2][2] # input_data[2][2]

\* C20: when two learn calls for the same pattern type have run concurrently
\* and both have returned, the success rates, the pattern database and the
\* history are those of one of the two serial orders of the calls.
C20_ConcurrentLearnsSerialize ==
  (\A t \in Threads : learners[t].pc = "done") =>
    \E first \in Threads :
      LET second == CHOOSE t \in Threads : t # first
          p == learners[first].pattern
          q == learners[second].pattern
          serial_rates ==
            _update_success_rates(
              _update_success_rates(EmptyDict, p.pattern_type, p.success_score,
                                    p.settings_used),
              q.pattern_type, q.success_score, q.settings_used)
      IN /\ success_rates = serial_rates
         /\ transformation_history = <<p, q>>
         /\ pattern_database = Put(EmptyDict, p.pattern_type, <<p, q>>)

\* C21: a learn call whose clustering refit fails leaves the cluster model and
\* the scaler exactly as they were before the call.
C21_FailedRefitKeepsModel ==
  [][(/\ transformation_history' # transformation_history
      /\ Len(transformation_history') % 20 = 0
      /\ feature_kinds(transformation_history') # {"finite"})
     => (cluster_model' = cluster_model /\ scaler' = scaler)]_vars

\* C22: increment_numbers turns a run of value n into 1 when n = 0; else into
\* the current year when n is in 1900..2030; else a single digit into n + 1,
\* with 9 into 0; else two digits into n + 1, with 99 into 109; else 123 into
\* 124; else a palindrome of three or more digits into n + 10; else into n + 1.
C22_SmartIncrementCases ==
  [][\A k \in DOMAIN run_values(increment_argument) :
       LET n == run_values(increment_argument)[k]
           digits == str(n)
           after == run_values(transformed'.val)[k]
           expected ==
             CASE n = 0 -> 1
               [] n \in 1900..2030 -> current_year
               [] n \in 1..8 -> n + 1
               [] n = 9 -> 0
               [] n \in 10..98 -> n + 1
               [] n = 99 -> 109
               [] n = 123 -> 124
               [] OTHER -> IF \A i \in 1..Len(digits) : digits[i] = digits[Len(digits) + 1 - i]
                           THEN n + 10 ELSE n + 1
       IN Len(run_values(transformed'.val)) = Len(run_values(increment_argument))
          /\ after = expected]_vars

\* a year and a palindrome of three digits have been incremented in one call
C22_Witness ==
  /\ password = PyStr(<<"a", "b", "2", "0", "1", "9", "!", "1", "2", "1">>)
  /\ current_year = 2026
  /\ transformed = Returned("str", <<"a", "b", "2", "0", "2", "6", "!", "1", "3", "1">>)

\* C23: a digit run of the password whose value is in 1900..2030 holds the
\* current year after increment_numbers has been applied any number of times,
\* whatever the current year.
C23_YearRunBecomesCurrentYear ==
  transformed # NoResult =>
    \A k \in DOMAIN run_values(password.val) :
      run_values(password.val)[k] \in 1900..2030
        => run_values(transformed.val)[k] = current_year

\* C26: the transformation of a very_weak or weak password, whatever the
\* settings and the pattern type, contains an uppercase letter.
C26_WeakResultHasUppercase ==
  (/\ ~Falsy(password)
   /\ analysis.kind = "report"
   /\ analysis.strength_level \in {"very_weak", "weak"}
   /\ transformed.kind = "returned")
  => HasAny(transformed.val, ReUpper)

\* C27: in the moderate branch with intelligent_patterns and increment_numbers
\* enabled, a digit run that is not a year holds in the result the smart
\* increment of its value, applied once.  Stated for the calls in which no
\* other step of the branch changes a character (the password has a special
\* character and no repeated characters, no substitution, no year appended).
C27_ModerateIncrementsOnce ==
  (/\ ~Falsy(password)
   /\ analysis.kind = "report"
   /\ analysis.strength_level = "moderate"
   /\ transformed.kind = "returned"
   /\ get(settings, "intelligent_patterns", TRUE)
   /\ get(settings, "increment_numbers", TRUE)
   /\ analysis.has_special /\ ~analysis.has_repeated_chars
   /\ ~get(settings, "character_substitution", TRUE)
   /\ ~get(settings, "add_year", TRUE))
  => \A k \in DOMAIN run_values(password.val) :
       LET n == run_values(password.val)[k]
       IN n \notin 1900..2030
            => /\ k \in DOMAIN run_values(transformed.val)
               /\ run_values(transformed.val)[k] = _smart_increment(n, current_year)

\* C28: the transformation of a strong password with intensity conservative
\* leaves every digit run of three or more digits, and every run of one or two
\* digits whose value is 50 or more, as it was.
C28_StrongConservativeKeepsLargeRuns ==
  (/\ ~Falsy(password)
   /\ analysis.kind = "report"
   /\ analysis.strength_level = "strong"
   /\ transformed.kind = "returned"
   /\ get(settings, "intensity", "moderate") = "conservative")
  => \A k \in DOMAIN run_values(password.val) :
       LET span == digit_runs(password.val, 1)[k]
           n == run_values(password.val)[k]
       IN (span[2] - span[1] + 1 >= 3 \/ n >= 50)
            => /\ k \in DOMAIN run_values(transformed.val)
               /\ run_values(transformed.val)[k] = n

\* C24: the substitution step of the very_weak/weak branch replaces at most
\* floor(length / 4) characters of the string it is given for intensity
\* moderate, at most floor(length / 2) for aggressive and at most one for
\* conservative, and each replacement is listed in the leet-speak table under
\* the letter it replaces.  A character is replaced when the result differs
\* from it by more than its case.
C24_SubstitutionsWithinLimit ==
  [][(transformed.kind = "local" /\ transformed.step = "enhanced"
      /\ transformed'.kind = "local")
     => LET x == transformed.val
            y == transformed'.val
            intensity == get(settings, "intensity", "moderate")
            limit == CASE intensity = "conservative" -> 1
                       [] intensity = "moderate" -> Len(x) \div 4
                       [] intensity = "aggressive" -> Len(x) \div 2
            replaced == {i \in 1..Len(x) : char_lower[y[i]] # char_lower[x[i]]}
        IN /\ Len(y) = Len(x)
           /\ Cardinality(replaced) <= limit
           /\ \A i \in replaced :
                /\ char_lower[x[i]] \in DOMAIN char_substitutions
                /\ \E k \in DOMAIN char_substitutions[char_lower[x[i]]] :
                     y[i] = char_substitutions[char_lower[x[i]]][k]]_vars

\* two of the eight characters of "Qwerty2!" have been replaced at intensity
\* moderate
C24_Witness ==
  /\ password = PyStr(<<"q", "w", "e", "r", "t", "y", "1">>)
  /\ get(settings, "intensity", "moderate") = "moderate"
  /\ transformed = [kind |-> "local", step |-> "substituted",
                    val |-> <<"q", "w", "3", "r", "7", "y", "2", "!">>]

\* C25: the substitution step leaves every character that it does not
\* substitute exactly as it was, so that an uppercase letter that is not
\* substituted stays uppercase.
C25_SubstitutionPreservesCase ==
  [][(transformed.kind = "local" /\ transformed.step = "enhanced"
      /\ transformed'.kind = "local")
     => LET x == transformed.val
            y == transformed'.val
        IN /\ Len(y) = Len(x)
           /\ \A i \in 1..Len(x) :
                \/ y[i] = x[i]
                \/ /\ char_lower[x[i]] \in DOMAIN char_substitutions
                   /\ \E k \in DOMAIN char_substitutions[char_lower[x[i]]] :
                        y[i] = char_substitutions[char_lower[x[i]]][k]]_vars

\* C29: a learn call refits the cluster model exactly when the history holds a
\* multiple of 20 records after the call; the model is then fitted over all
\* records of the history with floor(size / 5) clusters, at least 2 and at
\* most 10; every other learn call leaves the model as it was.
C29_RefitEveryTwentiethRecord ==
  [][(/\ Len(transformation_history') = Len(transformation_history) + 1
      /\ SubSeq(transformation_history', 1, Len(transformation_history))
           = transformation_history)
     => LET size == Len(transformation_history')
            count == CASE size \div 5 < 2 -> 2
                       [] size \div 5 > 10 -> 10
                       [] OTHER -> size \div 5
        IN IF size % 20 = 0
           THEN /\ cluster_model'.fitted
                /\ cluster_model'.n_samples = size
                /\ cluster_model'.n_clusters = count
           ELSE cluster_model' = cluster_model]_vars

\* the sixtieth record has been learned and the model refitted with 10 clusters
C29_Witness ==
  /\ Len(transformation_history) = 60
  /\ cluster_model = [fitted |-> TRUE, n_clusters |-> 10, n_samples |-> 60]

\* C30: a learn call with success score 1.0 for a pattern type that has no
\* records yet lowers neither the confidence score that predict_best_settings
\* returns for the pattern type nor the rate that the engine reads for its
\* success probability.
C30_GoodNewsKeepsConfidence ==
  [][(/\ Len(transformation_history') = Len(transformation_history) + 1
      /\ SubSeq(transformation_history', 1, Len(transformation_history))
           = transformation_history)
     => LET pattern == transformation_history'[Len(transformation_history')]
            pattern_type == pattern.pattern_type
        IN (/\ pattern.success_score = RateScale
            /\ dict_get(pattern_database, pattern_type, <<>>) = <<>>)
           => /\ confidence_score(success_rates', pattern_type)
                   >= confidence_score(success_rates, pattern_type)
              /\ pattern_success(success_rates', pattern_type)
                   >= pattern_success(success_rates, pattern_type)]_vars

====
